---- MODULE Spec2Model ----
(***************************************************************************)
(* Model of the gist browser extension's page automation layer:            *)
(*   content/utils/aria-snapshot.ts  (snapshot builder, element resolver)  *)
(*   content/utils/link-hints.ts     (isClickableElement)                  *)
(*   content/automation.ts           (page-local action executor)          *)
(*   background.ts                   (action transport router, resource    *)
(*                                    store update handlers)               *)
(*   content/components/LinkHints.tsx (hint labels and the typed filter)   *)
(*   content/utils/resource-storage.ts (sendMessage)                       *)
(*                                                                         *)
(* The document is a sequence of element records in document order (the    *)
(* order of querySelectorAll('*')); element n names its parent by position *)
(* (0 is <body>).  Strings the code inspects character by character are    *)
(* sequences of one-character strings.                                     *)
(***************************************************************************)
EXTENDS Integers, Sequences, FiniteSets, TLC

VARIABLES
  dom,              \* the live document: Seq of element records
  activeElement,    \* document.activeElement (0 = body)
  elementIndex,     \* aria-snapshot.ts module variable elementIndex
  elementIndexMap,  \* aria-snapshot.ts module variable elementIndexMap
  snapshot,         \* return value of the latest generateAriaSnapshot()
  snapEls,          \* history: the element each line of snapshot describes
  prevSnapshot,     \* history: the previous return value, kept while the DOM is unchanged
  resnap,           \* history: the latest call re-ran the snapshot on an unchanged DOM
  mutated,          \* history: the DOM changed since the latest snapshot
  mutations,        \* history: how many times page scripts changed the DOM
  findsSince,       \* history: a resolve call ran since the latest snapshot
  lastCall,         \* history: the latest call of an exported function
  found,            \* history: what the latest resolve call returned (0 = null)
  waits,            \* the wait actions whose timer has not fired yet
  lastMsg,          \* history: the AUTOMATION_ACTION message handled or answered last
  lastResp,         \* history: the sendResponse calls made for lastMsg so far
  msgBit,           \* history: flips whenever the listener receives a message
  threw,            \* history: the handler of lastMsg raised an exception
  events,           \* history: the events the handler of lastMsg dispatched, in order
  located,          \* history: the element the locator of lastMsg resolved (0 = none)
  waited,           \* history: how long the wait answered in lastResp was suspended (ms)
  router,           \* background.ts: the AUTOMATION_ACTION message the router is serving
  resources,        \* background.ts: the IndexedDB object store, resource id -> Resource
  handlers,         \* background.ts: the handleMessage() invocations in progress
  now,              \* Date.now() of the background worker
  hintsVisible,     \* LinkHints.tsx: the visible prop of the component
  allHints,         \* LinkHints.tsx: state allHints
  keyStrokeQueue,   \* LinkHints.tsx: state keyStrokeQueue
  selectTimer,      \* LinkHints.tsx: the auto-select timer is pending
  selectedHint,     \* history: the hint passed to onLinkSelected last (0 = none)
  send              \* resource-storage.ts: the latest sendMessage() call, its timer and promise

pageVars  == <<dom, activeElement>>
indexVars == <<elementIndex, elementIndexMap>>
snapVars  == <<snapshot, snapEls, prevSnapshot, resnap, mutated, mutations, findsSince>>
callVars  == <<lastCall, found>>
execVars  == <<waits, lastMsg, lastResp, msgBit, threw, events, located, waited>>
storeVars == <<resources, handlers, now>>
hintVars  == <<hintsVisible, allHints, keyStrokeQueue, selectTimer, selectedHint>>
sideVars  == <<storeVars, hintVars, send>>
baseVars  == <<pageVars, indexVars, snapVars, callVars, execVars, router, send>>
vars == <<pageVars, indexVars, snapVars, callVars, execVars, router, sideVars>>

----------------------------------------------------------------------------
(* Bounds of the model *)

\* largest number of elements in a generated document
MaxNodes == 3

\* largest number of changes page scripts make to the document in one run
MaxMutations == 1

----------------------------------------------------------------------------
(* JavaScript values *)

Null == 0

\* Number.NaN, kept apart from every integer the model produces
NaN == -1000000

\* a === b on numbers: NaN equals nothing, itself included
StrictEq(a, b) == a # NaN /\ b # NaN /\ a = b

LowerChar(c) ==
  CASE c = "A" -> "a" [] c = "B" -> "b" [] c = "G" -> "g" [] c = "O" -> "o"
    [] c = "S" -> "s" [] c = "X" -> "x" [] OTHER -> c

\* String.prototype.toLowerCase
ToLowerCase(s) == [i \in 1..Len(s) |-> LowerChar(s[i])]

\* String.prototype.includes
Includes(s, q) == \E i \in 0..(Len(s) - Len(q)) : SubSeq(s, i + 1, i + Len(q)) = q

IsSpace(c) == c \in {" ", "\n", "\t"}

RECURSIVE TrimStart(_)
TrimStart(s) == IF s # <<>> /\ IsSpace(Head(s)) THEN TrimStart(Tail(s)) ELSE s

RECURSIVE TrimEnd(_)
TrimEnd(s) ==
  IF s # <<>> /\ IsSpace(s[Len(s)]) THEN TrimEnd(SubSeq(s, 1, Len(s) - 1)) ELSE s

\* String.prototype.trim
Trim(s) == TrimEnd(TrimStart(s))

RECURSIVE Flatten(_)
Flatten(ss) == IF ss = <<>> THEN <<>> ELSE Head(ss) \o Flatten(Tail(ss))

\* Array.prototype.join(' ')
RECURSIVE JoinSpace(_)
JoinSpace(ss) ==
  IF ss = <<>> THEN <<>>
  ELSE IF Len(ss) = 1 THEN Head(ss)
  ELSE Head(ss) \o <<" ">> \o JoinSpace(Tail(ss))

MapSet(f, k, v) == [x \in (DOMAIN f) \cup {k} |-> IF x = k THEN v ELSE f[x]]

----------------------------------------------------------------------------
(* The document *)

\* an element with no attribute set
BlankEl ==
  [ parent |-> 0, tag |-> "div", html |-> TRUE, visible |-> TRUE,
    role |-> "", id |-> <<>>, ariaLabel |-> <<>>, ariaLabelledby |-> <<>>,
    ariaDescribedby |-> <<>>, htmlFor |-> <<>>, placeholder |-> <<>>,
    name |-> <<>>, text |-> <<>>, href |-> <<>>, inputType |-> "",
    value |-> <<>>, checked |-> FALSE, selected |-> FALSE, disabled |-> FALSE,
    readOnly |-> FALSE, ariaDisabled |-> "", onclick |-> FALSE,
    contentEditable |-> "", tabindex |-> <<>>, class |-> <<>>,
    scrollable |-> FALSE, multiple |-> FALSE, options |-> <<>>,
    left |-> 0, top |-> 0, width |-> 20, height |-> 10 ]

AllElements == [i \in 1..Len(dom) |-> i]

\* element.children, in order
Children(n) == SelectSeq(AllElements, LAMBDA c : dom[c].parent = n)

RECURSIVE IsAncestor(_, _)
IsAncestor(a, n) ==
  dom[n].parent # 0 /\ (dom[n].parent = a \/ IsAncestor(a, dom[n].parent))

OptionTexts(n) == Flatten([i \in 1..Len(dom[n].options) |-> dom[n].options[i].text])

\* element.textContent: the text of the element and of all its descendants
TextContent(n) ==
  Flatten([i \in 1..Len(dom) |->
             IF i = n \/ IsAncestor(n, i) THEN dom[i].text \o OptionTexts(i) ELSE <<>>])

\* document.getElementById: the first element carrying the id, 0 when none
GetElementById(id) ==
  LET hits == SelectSeq(AllElements, LAMBDA e : dom[e].id = id)
  IN IF id = <<>> \/ hits = <<>> THEN Null ELSE Head(hits)

\* document.querySelector throws a SyntaxError on 'label[for="<id>"]' when a
\* double quote in the id ends the quoted value early (ids that go on to
\* close the bracket and form another valid selector are not modelled)
QuerySelectorThrows(id) == Includes(id, <<"\"">>)

\* the message of that SyntaxError
SelectorErrorText == <<"Failed to execute 'querySelector' on 'Document'">>

\* document.querySelector('label[for="<id>"]') for an id it accepts
LabelFor(id) ==
  LET hits == SelectSeq(AllElements, LAMBDA e : dom[e].tag = "label" /\ dom[e].htmlFor = id)
  IN IF hits = <<>> THEN Null ELSE Head(hits)

----------------------------------------------------------------------------
(* aria-snapshot.ts: classifier and name resolver *)

interactiveRoles ==
  {"button", "link", "checkbox", "radio", "textbox", "combobox", "listbox",
   "option", "tab", "menuitem", "slider", "switch"}

\* role.toLowerCase() for the role attribute values of the model
LowerRole(r) == CASE r = "BUTTON" -> "button" [] r = "Link" -> "link" [] OTHER -> r

IsInteractive(n) ==
  /\ dom[n].html
  /\ \/ dom[n].role # "" /\ LowerRole(dom[n].role) \in interactiveRoles
     \/ dom[n].tag = "a"
     \/ dom[n].tag = "input" /\ dom[n].inputType # "hidden"
     \/ dom[n].tag \in {"button", "textarea", "select"}
     \/ dom[n].contentEditable = "true"

\* the outcome of the computed-style and bounding-box tests
IsVisible(n) == dom[n].html /\ dom[n].visible

\* the attribute string "id1 id2 ..." handed whole to getElementById
LabelledbyTarget(n) ==
  IF Len(dom[n].ariaLabelledby) = 1 THEN GetElementById(dom[n].ariaLabelledby[1]) ELSE Null

\* getAccessibleName(n) reaches its querySelector call and the call throws
NameThrows(n) ==
  /\ dom[n].ariaLabel = <<>>
  /\ ~(dom[n].ariaLabelledby # <<>> /\ LabelledbyTarget(n) # Null)
  /\ dom[n].id # <<>>
  /\ QuerySelectorThrows(dom[n].id)

\* if (text && text.length < 50) return text; return ''
TextAsName(text) == IF text # <<>> /\ Len(text) < 50 THEN text ELSE <<>>

\* the value getAccessibleName(n) returns when it does not throw
GetAccessibleName(n) ==
  IF dom[n].ariaLabel # <<>> THEN dom[n].ariaLabel
  ELSE IF dom[n].ariaLabelledby # <<>> /\ LabelledbyTarget(n) # Null
    THEN Trim(TextContent(LabelledbyTarget(n)))
  ELSE IF dom[n].id # <<>> /\ LabelFor(dom[n].id) # Null
    THEN Trim(TextContent(LabelFor(dom[n].id)))
  ELSE IF dom[n].tag \in {"input", "textarea"}
    THEN (IF dom[n].placeholder # <<>> THEN dom[n].placeholder ELSE dom[n].name)
  ELSE TextAsName(Trim(TextContent(n)))

GetAccessibleDescription(n) ==
  LET ids   == dom[n].ariaDescribedby
      els   == SelectSeq([i \in 1..Len(ids) |-> GetElementById(ids[i])], LAMBDA e : e # Null)
      texts == SelectSeq([i \in 1..Len(els) |-> Trim(TextContent(els[i]))], LAMBDA t : t # <<>>)
  IN IF ids # <<>> THEN JoinSpace(texts) ELSE <<>>

\* Array.from(document.querySelectorAll('*')).filter(isInteractive).filter(isVisible)
InteractiveElements == SelectSeq(AllElements, LAMBDA e : IsInteractive(e) /\ IsVisible(e))

----------------------------------------------------------------------------
(* aria-snapshot.ts: the index counter and map *)

\* the pair (elementIndex, elementIndexMap) as one value
IndexState == [elementIndex |-> elementIndex, elementIndexMap |-> elementIndexMap]

\* a reset that forgets the counter
BrokenResetIndexState(ix) == [elementIndex |-> ix.elementIndex, elementIndexMap |-> <<>>]

\* elementIndex = 0; elementIndexMap = new WeakMap()
ResetIndexState(ix) == [elementIndex |-> 0, elementIndexMap |-> <<>>]

\* getElementIndex without the has() test
BrokenGetElementIndex(ix, element) ==
  [ix    |-> [elementIndex    |-> ix.elementIndex + 1,
              elementIndexMap |-> MapSet(ix.elementIndexMap, element, ix.elementIndex + 1)],
   index |-> ix.elementIndex + 1]

GetElementIndex(ix, element) ==
  LET ix2 == IF element \notin DOMAIN ix.elementIndexMap
             THEN [elementIndex    |-> ix.elementIndex + 1,
                   elementIndexMap |-> MapSet(ix.elementIndexMap, element, ix.elementIndex + 1)]
             ELSE ix
  IN [ix |-> ix2, index |-> ix2.elementIndexMap[element]]

----------------------------------------------------------------------------
(* aria-snapshot.ts: snapshot builder *)

\* default of captureElement's maxDepth parameter
maxDepth == 10

\* a snapshot that returns the empty string for an empty page
BrokenNoElementsText == ""

\* return 'No interactive elements found'
NoElementsText == "No interactive elements found"

\* String.prototype.replace for the three escapes of escapeYaml
EscapeChar(c) ==
  CASE c = "\"" -> <<"\\", "\"">> [] c = "\n" -> <<"\\", "n">>
    [] c = "\t" -> <<"\\", "t">> [] OTHER -> <<c>>

EscapeYaml(s) == Flatten([i \in 1..Len(s) |-> EscapeChar(s[i])])

\* a capture without the isVisible test
RECURSIVE BrokenCaptureElement(_, _)
BrokenCaptureElement(n, depth) ==
  IF depth > maxDepth THEN <<>>
  ELSE LET kids == SelectSeq(Children(n), LAMBDA c : IsInteractive(c))
       IN <<[el |-> n, depth |-> depth]>>
          \o Flatten([i \in 1..Len(kids) |-> BrokenCaptureElement(kids[i], depth + 1)])

\* the elements captureElement(n, depth) visits, in the order it calls
\* getElementIndex on them, each with its depth
RECURSIVE CaptureElement(_, _)
CaptureElement(n, depth) ==
  IF depth > maxDepth \/ ~IsVisible(n) THEN <<>>
  ELSE LET kids == SelectSeq(Children(n), LAMBDA c : IsInteractive(c))
       IN <<[el |-> n, depth |-> depth]>>
          \o Flatten([i \in 1..Len(kids) |-> CaptureElement(kids[i], depth + 1)])

\* the elements markDescendants(n, processed) adds to processed
MarkDescendants(n) == {d \in 1..Len(dom) : IsAncestor(n, d) /\ IsInteractive(d)}

\* the for-loop of generateAriaSnapshot over the remaining elements
RECURSIVE RootsLoop(_, _)
RootsLoop(els, processed) ==
  IF els = <<>> THEN <<>>
  ELSE LET element     == Head(els)
           rootElement == dom[element].parent
       IN IF element \in processed THEN RootsLoop(Tail(els), processed)
          ELSE IF rootElement # 0 /\ IsInteractive(rootElement) /\ IsVisible(rootElement)
            THEN RootsLoop(Tail(els), processed)
          ELSE LET node == CaptureElement(element, 0)
               IN IF node # <<>>
                  THEN node \o RootsLoop(Tail(els),
                                         processed \cup {element} \cup MarkDescendants(element))
                  ELSE RootsLoop(Tail(els), processed)

\* the role captureElement records
NodeRole(n) ==
  IF dom[n].role # "" THEN dom[n].role
  ELSE CASE dom[n].tag = "a" -> "link"
         [] dom[n].tag = "button" -> "button"
         [] dom[n].tag = "input" ->
              (IF dom[n].inputType \in {"checkbox", "radio"} THEN dom[n].inputType ELSE "textbox")
         [] dom[n].tag = "textarea" -> "textbox"
         [] dom[n].tag = "select" -> "combobox"
         [] dom[n].tag = "option" -> "option"
         [] OTHER -> ""

NodeDisabled(n) ==
  \/ dom[n].ariaDisabled = "true"
  \/ dom[n].tag \in {"input", "button"} /\ dom[n].disabled

\* one line of nodeToYaml: an attribute the code omits is empty (FALSE) here
NodeToYaml(n, index, indent) ==
  [ indent      |-> indent,
    index       |-> index,
    role        |-> NodeRole(n),
    name        |-> EscapeYaml(GetAccessibleName(n)),
    description |-> EscapeYaml(GetAccessibleDescription(n)),
    value       |-> IF dom[n].tag \in {"input", "textarea"} THEN EscapeYaml(dom[n].value) ELSE <<>>,
    checked     |-> dom[n].role = "" /\ dom[n].tag = "input" /\ dom[n].checked,
    selected    |-> dom[n].role = "" /\ dom[n].tag = "option" /\ dom[n].selected,
    disabled    |-> NodeDisabled(n),
    href        |-> IF dom[n].role = "" /\ dom[n].tag = "a" THEN EscapeYaml(dom[n].href) ELSE <<>> ]

\* an assignment that hands out the indices from the last captured element
\* backwards
RECURSIVE BrokenAssignIndices(_, _)
BrokenAssignIndices(ix, nodes) ==
  IF nodes = <<>> THEN [ix |-> ix, lines |-> <<>>]
  ELSE LET rest == BrokenAssignIndices(ix, Tail(nodes))
           r    == GetElementIndex(rest.ix, Head(nodes).el)
       IN [ix    |-> r.ix,
           lines |-> <<NodeToYaml(Head(nodes).el, r.index, Head(nodes).depth)>> \o rest.lines]

\* getElementIndex applied to the captured elements in capture order
RECURSIVE AssignIndices(_, _)
AssignIndices(ix, nodes) ==
  IF nodes = <<>> THEN [ix |-> ix, lines |-> <<>>]
  ELSE LET r    == GetElementIndex(ix, Head(nodes).el)
           rest == AssignIndices(r.ix, Tail(nodes))
       IN [ix    |-> rest.ix,
           lines |-> <<NodeToYaml(Head(nodes).el, r.index, Head(nodes).depth)>> \o rest.lines]

\* the captured elements up to and including the first whose name throws:
\* captureElement takes the element's index, then asks for its name
RECURSIVE UntilThrow(_)
UntilThrow(nodes) ==
  IF nodes = <<>> THEN <<>>
  ELSE IF NameThrows(Head(nodes).el) THEN <<Head(nodes)>>
  ELSE <<Head(nodes)>> \o UntilThrow(Tail(nodes))

\* generateAriaSnapshot() once the capture order and the indices are known:
\* the new index state and either the exception that left the function, or
\* the returned text as a sequence of lines and the element behind each line
SnapshotOf(ix, nodes, done, r) ==
  IF done # <<>> /\ NameThrows(done[Len(done)].el)
  THEN [throws |-> TRUE, ix |-> AssignIndices(ResetIndexState(ix), done).ix,
        text |-> <<>>, els |-> <<>>]
  ELSE [throws |-> FALSE, ix |-> r.ix,
        text |-> IF nodes = <<>> THEN <<[raw |-> NoElementsText]>> ELSE r.lines,
        els  |-> [i \in 1..Len(nodes) |-> nodes[i].el]]

\* what generateAriaSnapshot() does for the capture order nodes
SnapshotFrom(ix, nodes) ==
  SnapshotOf(ix, nodes, UntilThrow(nodes), AssignIndices(ResetIndexState(ix), nodes))

GenerateAriaSnapshot(ix) == SnapshotFrom(ix, RootsLoop(InteractiveElements, {}))

----------------------------------------------------------------------------
(* aria-snapshot.ts: element resolver *)

\* a resolver that takes the index as the position in the current list
BrokenFindByIndexFrom(ix, els, index) ==
  IF index \in 1..Len(els) THEN [ix |-> ix, element |-> els[index]]
  ELSE [ix |-> ix, element |-> Null]

RECURSIVE FindByIndexFrom(_, _, _)
FindByIndexFrom(ix, els, index) ==
  IF els = <<>> THEN [ix |-> ix, element |-> Null]
  ELSE LET r == GetElementIndex(ix, Head(els))
       IN IF StrictEq(r.index, index) THEN [ix |-> r.ix, element |-> Head(els)]
          ELSE FindByIndexFrom(r.ix, Tail(els), index)

FindElementByIndex(ix, index) == FindByIndexFrom(ix, InteractiveElements, index)

TextMatches(e, lowerText) ==
  \/ Includes(ToLowerCase(GetAccessibleName(e)), lowerText)
  \/ Includes(ToLowerCase(Trim(TextContent(e))), lowerText)

\* the value findElementByText(text) returns when it does not throw
FindElementByText(text) ==
  LET hits == SelectSeq(InteractiveElements, LAMBDA e : TextMatches(e, ToLowerCase(text)))
  IN IF hits = <<>> THEN Null ELSE Head(hits)

\* findElementByText(text) throws: the loop asks for the name of an element
\* whose name throws before it has returned a match
FindByTextThrows(text) ==
  \E e \in 1..Len(dom) :
    /\ IsInteractive(e) /\ IsVisible(e) /\ NameThrows(e)
    /\ \A h \in 1..(e - 1) :
         ~(IsInteractive(h) /\ IsVisible(h) /\ TextMatches(h, ToLowerCase(text)))

----------------------------------------------------------------------------
(* link-hints.ts: the clickable predicate *)

Digit(c) ==
  CASE c = "0" -> 0 [] c = "1" -> 1 [] c = "2" -> 2 [] c = "3" -> 3 [] c = "4" -> 4
    [] c = "5" -> 5 [] c = "6" -> 6 [] c = "7" -> 7 [] c = "8" -> 8 [] c = "9" -> 9
    [] OTHER -> -1

RECURSIVE ParseDigits(_, _, _)
ParseDigits(s, acc, seen) ==
  IF s # <<>> /\ Digit(Head(s)) >= 0
  THEN ParseDigits(Tail(s), acc * 10 + Digit(Head(s)), TRUE)
  ELSE IF seen THEN acc ELSE NaN

\* parseInt(s) of a string without a 0x prefix: leading white space, a sign,
\* then the longest run of decimal digits; NaN when there is none
ParseInt(s) ==
  LET t == TrimStart(s)
  IN IF t # <<>> /\ Head(t) = "-"
     THEN (LET v == ParseDigits(Tail(t), 0, FALSE) IN IF v = NaN THEN NaN ELSE 0 - v)
     ELSE IF t # <<>> /\ Head(t) = "+" THEN ParseDigits(Tail(t), 0, FALSE)
     ELSE ParseDigits(t, 0, FALSE)

clickableRoles ==
  {"button", "tab", "link", "checkbox", "menuitem", "menuitemcheckbox",
   "menuitemradio", "radio", "textbox"}

\* aria-disabled, lower-cased
LowerAriaDisabled(v) == IF v = "TRUE" THEN "true" ELSE v

\* HTMLElement.tabIndex: the tabindex attribute, else 0 for a form control or link
TabIndexProperty(n) ==
  IF dom[n].tabindex # <<>> /\ ParseInt(dom[n].tabindex) # NaN THEN ParseInt(dom[n].tabindex)
  ELSE IF dom[n].tag \in {"a", "input", "button", "select", "textarea"} THEN 0 ELSE -1

\* HTMLLabelElement.control
LabelControl(n) ==
  LET labelable(e) == dom[e].tag \in {"input", "button", "select", "textarea"}
      inside == SelectSeq(AllElements, LAMBDA e : IsAncestor(n, e) /\ labelable(e))
      byId   == GetElementById(dom[n].htmlFor)
  IN IF dom[n].htmlFor # <<>>
     THEN (IF byId # Null /\ labelable(byId) THEN byId ELSE Null)
     ELSE (IF inside = <<>> THEN Null ELSE Head(inside))

ButtonWord == <<"b", "u", "t", "t", "o", "n">>

IsClickableElement(n) ==
  IF ~dom[n].html THEN FALSE
  ELSE IF LowerAriaDisabled(dom[n].ariaDisabled) = "true" THEN FALSE
  ELSE IF dom[n].onclick THEN TRUE
  ELSE IF dom[n].role # "" /\ LowerRole(dom[n].role) \in clickableRoles THEN TRUE
  ELSE IF dom[n].contentEditable \in {"contenteditable", "true"} THEN TRUE
  ELSE CASE dom[n].tag = "a" -> TRUE
         [] dom[n].tag = "textarea" -> ~dom[n].disabled /\ ~dom[n].readOnly
         [] dom[n].tag = "input" ->
              /\ dom[n].inputType # "hidden"
              /\ ~dom[n].disabled
              /\ ~(dom[n].readOnly /\ TabIndexProperty(n) >= 0)
         [] dom[n].tag \in {"button", "select"} -> ~dom[n].disabled
         [] dom[n].tag \in {"object", "embed", "details"} -> TRUE
         [] dom[n].tag = "label" ->
              LabelControl(n) # Null /\ ~dom[LabelControl(n)].disabled
         [] OTHER ->
              IF dom[n].tabindex # <<>> /\ ParseInt(dom[n].tabindex) # NaN
                 /\ ParseInt(dom[n].tabindex) >= 0 THEN TRUE
              ELSE IF Includes(ToLowerCase(dom[n].class), ButtonWord) THEN TRUE
              ELSE IF dom[n].tag \in {"div", "ol", "ul"} THEN dom[n].scrollable
              ELSE FALSE

----------------------------------------------------------------------------
(* automation.ts: payloads, results and the effects of a handler *)

\* message.payload === undefined
Undefined == [undefined |-> TRUE]
IsUndefined(payload) == "undefined" \in DOMAIN payload

\* a payload with every field absent: an absent field is falsy (empty, 0, FALSE)
BlankPayload ==
  [ ref |-> <<>>, element |-> <<>>, text |-> <<>>, values |-> <<>>,
    startRef |-> <<>>, startElement |-> <<>>, endRef |-> <<>>, endElement |-> <<>>,
    key |-> "", time |-> 0, submit |-> FALSE, url |-> <<>> ]

PageUrl == "https://example.test/"
PageTitle == "Example"

\* number of entries in window.browserAutomationLogs
LogCount == 51
browserAutomationLogs == [i \in 1..LogCount |-> i]

\* how many of the latest log entries getConsoleLogs returns
LogTail == 50

Success(data) == [success |-> TRUE, data |-> data]

\* handleError
HandleError(message) == [success |-> FALSE, error |-> message]

\* the text `${payload.element || payload.ref}` of a result
LocatorText(payload) == IF payload.element # <<>> THEN payload.element ELSE payload.ref

\* a DOM event as the handlers construct it
Event(type, target) ==
  [type |-> type, target |-> target, bubbles |-> TRUE, cancelable |-> TRUE,
   clientX |-> 0, clientY |-> 0, buttons |-> 0, key |-> ""]

\* the invocation of element.click()
NativeClick(target) ==
  [type |-> "click()", target |-> target, bubbles |-> TRUE, cancelable |-> TRUE,
   clientX |-> 0, clientY |-> 0, buttons |-> 0, key |-> ""]

\* what a handler returned and did: its result, the page and index state it
\* left, the events it dispatched in order, the element its locator resolved,
\* and the latest snapshot text
Effect(resp, ix, target) ==
  [throws |-> FALSE, error |-> <<>>, resp |-> resp, dom |-> dom,
   activeElement |-> activeElement, ix |-> ix, events |-> <<>>, target |-> target,
   snapshot |-> snapshot, snapEls |-> snapEls]

\* a handler that threw before it changed anything; no result was returned
Throws(message) ==
  [throws |-> TRUE, error |-> message, resp |-> Undefined, dom |-> dom,
   activeElement |-> activeElement, ix |-> IndexState, events |-> <<>>, target |-> Null,
   snapshot |-> snapshot, snapEls |-> snapEls]

\* reading a property of an undefined payload
TypeErrorText == <<"Cannot read properties of undefined">>

\* the locator prologue shared by the handlers: ref first, else element
Located(r, throws) ==
  [ix |-> r.ix, element |-> IF throws THEN Null ELSE r.element, throws |-> throws]

\* a locator that falls back to the text query when the ref resolves nothing
BrokenLocate(ix, ref, element) ==
  IF ref # <<>> /\ FindElementByIndex(ix, ParseInt(ref)).element # Null
  THEN Located(FindElementByIndex(ix, ParseInt(ref)), FALSE)
  ELSE IF element # <<>>
  THEN Located([ix |-> ix, element |-> FindElementByText(element)], FindByTextThrows(element))
  ELSE Located([ix |-> ix, element |-> Null], FALSE)

Locate(ix, ref, element) ==
  IF ref # <<>> THEN Located(FindElementByIndex(ix, ParseInt(ref)), FALSE)
  ELSE IF element # <<>>
  THEN Located([ix |-> ix, element |-> FindElementByText(element)], FindByTextThrows(element))
  ELSE Located([ix |-> ix, element |-> Null], FALSE)

----------------------------------------------------------------------------
(* automation.ts: the handlers *)

\* handleClick once its locator has run
ClickLocated(payload, r) ==
  IF r.throws THEN Throws(SelectorErrorText)
  ELSE IF r.element = Null
  THEN Effect(HandleError(<<"Element not found", LocatorText(payload)>>), r.ix, Null)
  ELSE IF ~IsClickableElement(r.element)
  THEN Effect(HandleError(<<"Element is not clickable", LocatorText(payload)>>),
              r.ix, r.element)
  ELSE [Effect(Success(<<"Clicked element", LocatorText(payload)>>), r.ix, r.element)
          EXCEPT !.events = <<NativeClick(r.element)>>]

HandleClick(payload) ==
  IF IsUndefined(payload) THEN Throws(TypeErrorText)
  ELSE ClickLocated(payload, Locate(IndexState, payload.ref, payload.element))

\* handleHover once its locator has run
HoverLocated(payload, r) ==
  IF r.throws THEN Throws(SelectorErrorText)
  ELSE IF r.element = Null
  THEN Effect(HandleError(<<"Element not found", LocatorText(payload)>>), r.ix, Null)
  ELSE [Effect(Success(<<"Hovered over element", LocatorText(payload)>>), r.ix, r.element)
          EXCEPT !.events = <<Event("mouseenter", r.element)>>]

HandleHover(payload) ==
  IF IsUndefined(payload) THEN Throws(TypeErrorText)
  ELSE HoverLocated(payload, Locate(IndexState, payload.ref, payload.element))

\* HTMLInputElement.form / HTMLTextAreaElement.form: the nearest <form> ancestor
RECURSIVE FormOwner(_)
FormOwner(n) ==
  IF dom[n].parent = 0 THEN Null
  ELSE IF dom[dom[n].parent].tag = "form" THEN dom[n].parent
  ELSE FormOwner(dom[n].parent)

\* element.focus(): a disabled control does not take the focus
FocusAfter(n) == IF dom[n].disabled THEN activeElement ELSE n

\* !payload.text
TextMissing(payload) == payload.text = <<>>

\* the events handleType dispatches after setting the value
TypeEvents(n, submit) ==
  <<[Event("input", n) EXCEPT !.cancelable = FALSE],
    [Event("change", n) EXCEPT !.cancelable = FALSE]>>
  \o (IF submit /\ FormOwner(n) # Null THEN <<Event("submit", FormOwner(n))>> ELSE <<>>)

\* a handleType that focuses the element before it tests its kind
BrokenTypeLocated(payload, r) ==
  IF r.throws THEN Throws(SelectorErrorText)
  ELSE IF r.element = Null
  THEN Effect(HandleError(<<"Element not found", LocatorText(payload)>>), r.ix, Null)
  ELSE IF ~(dom[r.element].tag \in {"input", "textarea"})
  THEN [Effect(HandleError(<<"Element is not an input", LocatorText(payload)>>),
               r.ix, r.element)
          EXCEPT !.activeElement = FocusAfter(r.element)]
  ELSE [Effect(Success(<<"Typed", payload.text, LocatorText(payload)>>), r.ix, r.element)
          EXCEPT !.activeElement = FocusAfter(r.element),
                 !.dom = [dom EXCEPT ![r.element].value = payload.text],
                 !.events = TypeEvents(r.element, payload.submit)]

\* handleType once its locator has run
TypeLocated(payload, r) ==
  IF r.throws THEN Throws(SelectorErrorText)
  ELSE IF r.element = Null
  THEN Effect(HandleError(<<"Element not found", LocatorText(payload)>>), r.ix, Null)
  ELSE IF ~(dom[r.element].tag \in {"input", "textarea"})
  THEN Effect(HandleError(<<"Element is not an input", LocatorText(payload)>>),
              r.ix, r.element)
  ELSE [Effect(Success(<<"Typed", payload.text, LocatorText(payload)>>), r.ix, r.element)
          EXCEPT !.activeElement = FocusAfter(r.element),
                 !.dom = [dom EXCEPT ![r.element].value = payload.text],
                 !.events = TypeEvents(r.element, payload.submit)]

HandleType(payload) ==
  IF IsUndefined(payload) THEN Throws(TypeErrorText)
  ELSE IF TextMissing(payload)
  THEN Effect(HandleError(<<"Text is required for type action">>), IndexState, Null)
  ELSE TypeLocated(payload, Locate(IndexState, payload.ref, payload.element))

\* option.selected = true on option k: a single-choice select drops the others
SelectOptionAt(options, k, multiple) ==
  [i \in 1..Len(options) |->
     IF i = k THEN [options[i] EXCEPT !.selected = TRUE]
     ELSE IF multiple THEN options[i]
     ELSE [options[i] EXCEPT !.selected = FALSE]]

\* options.find(opt => opt.value === value || opt.textContent?.includes(value))
FindOption(options, value) ==
  LET hits == SelectSeq([i \in 1..Len(options) |-> i],
                        LAMBDA i : options[i].value = value \/ Includes(options[i].text, value))
  IN IF hits = <<>> THEN 0 ELSE Head(hits)

\* the for-loop of handleSelectOption over payload.values
RECURSIVE ApplyValues(_, _, _)
ApplyValues(options, values, multiple) ==
  IF values = <<>> THEN options
  ELSE LET k == FindOption(options, Head(values))
       IN ApplyValues(IF k = 0 THEN options ELSE SelectOptionAt(options, k, multiple),
                      Tail(values), multiple)

\* the assignment option.selected = true on option k of select n
OptionSelected(n, k) == [type |-> "selected=true", target |-> n, option |-> k]

\* the assignments the for-loop of handleSelectOption makes, in order
RECURSIVE SelectionLog(_, _, _)
SelectionLog(n, options, values) ==
  IF values = <<>> THEN <<>>
  ELSE (IF FindOption(options, Head(values)) = 0 THEN <<>>
        ELSE <<OptionSelected(n, FindOption(options, Head(values)))>>)
       \o SelectionLog(n, options, Tail(values))

\* a change event dispatched before the loop as well as after it
BrokenSelectEvents(n, values) ==
  <<[Event("change", n) EXCEPT !.cancelable = FALSE]>>
  \o SelectionLog(n, dom[n].options, values)
  \o <<[Event("change", n) EXCEPT !.cancelable = FALSE]>>

\* what handleSelectOption does to a select, in order: the assignments of the
\* loop, then dispatchEvent(new Event('change', { bubbles: true }))
SelectEvents(n, values) ==
  SelectionLog(n, dom[n].options, values)
  \o <<[Event("change", n) EXCEPT !.cancelable = FALSE]>>

\* handleSelectOption once its locator has run
SelectLocated(payload, r) ==
  IF r.throws THEN Throws(SelectorErrorText)
  ELSE IF r.element = Null
  THEN Effect(HandleError(<<"Element not found", LocatorText(payload)>>), r.ix, Null)
  ELSE IF dom[r.element].tag # "select"
  THEN Effect(HandleError(<<"Element is not a select", LocatorText(payload)>>),
              r.ix, r.element)
  ELSE [Effect(Success(<<"Selected options in element", LocatorText(payload)>>),
               r.ix, r.element)
          EXCEPT !.dom = [dom EXCEPT ![r.element].options =
                            ApplyValues(@, payload.values, dom[r.element].multiple)],
                 !.events = SelectEvents(r.element, payload.values)]

HandleSelectOption(payload) ==
  IF IsUndefined(payload) THEN Throws(TypeErrorText)
  ELSE IF payload.values = <<>>
  THEN Effect(HandleError(<<"Values are required for selectOption action">>), IndexState, Null)
  ELSE SelectLocated(payload, Locate(IndexState, payload.ref, payload.element))

\* centre of the bounding box; the boxes of the model have even sides
CentreX(n) == dom[n].left + dom[n].width \div 2
CentreY(n) == dom[n].top + dom[n].height \div 2

\* a drag that releases the button where it was pressed
BrokenDragEvents(from, to) ==
  <<[Event("mousedown", from) EXCEPT
       !.clientX = CentreX(from), !.clientY = CentreY(from), !.buttons = 1],
    [Event("mousemove", to) EXCEPT
       !.clientX = CentreX(to), !.clientY = CentreY(to), !.buttons = 1],
    [Event("mouseup", from) EXCEPT !.clientX = CentreX(from), !.clientY = CentreY(from)]>>

\* the three mouse events of handleDrag
DragEvents(from, to) ==
  <<[Event("mousedown", from) EXCEPT
       !.clientX = CentreX(from), !.clientY = CentreY(from), !.buttons = 1],
    [Event("mousemove", to) EXCEPT
       !.clientX = CentreX(to), !.clientY = CentreY(to), !.buttons = 1],
    [Event("mouseup", to) EXCEPT !.clientX = CentreX(to), !.clientY = CentreY(to)]>>

\* handleDrag once both locators have run
DragLocated(s, e) ==
  IF e.throws THEN [Throws(SelectorErrorText) EXCEPT !.ix = e.ix]
  ELSE IF s.element = Null \/ e.element = Null
  THEN Effect(HandleError(<<"Elements not found for drag operation">>), e.ix, Null)
  ELSE IF ~dom[s.element].html \/ ~dom[e.element].html
  THEN Effect(HandleError(<<"Elements are not valid for drag operation">>), e.ix, Null)
  ELSE [Effect(Success(<<"Dragged">>), e.ix, s.element)
          EXCEPT !.events = DragEvents(s.element, e.element)]

\* handleDrag once the start locator has run
DragStartLocated(payload, s) ==
  IF s.throws THEN Throws(SelectorErrorText)
  ELSE DragLocated(s, Locate(s.ix, payload.endRef, payload.endElement))

HandleDrag(payload) ==
  IF IsUndefined(payload) THEN Throws(TypeErrorText)
  ELSE DragStartLocated(payload, Locate(IndexState, payload.startRef, payload.startElement))

HandlePressKey(payload) ==
  IF IsUndefined(payload) THEN Throws(TypeErrorText)
  ELSE IF payload.key = ""
  THEN Effect(HandleError(<<"Key is required for pressKey action">>), IndexState, Null)
  ELSE [Effect(Success(<<"Pressed key", payload.key>>), IndexState, Null)
          EXCEPT !.events = <<[Event("keydown", activeElement) EXCEPT !.key = payload.key],
                              [Event("keyup", activeElement) EXCEPT !.key = payload.key]>>]

\* logs.slice(-50)
HandleGetConsoleLogs ==
  LET logs == browserAutomationLogs
      from == IF Len(logs) > LogTail THEN Len(logs) - LogTail + 1 ELSE 1
  IN Effect(Success(SubSeq(logs, from, Len(logs))), IndexState, Null)

\* handleSnapshot once generateAriaSnapshot() has returned
SnapshotResult(r) ==
  IF r.throws THEN [Throws(SelectorErrorText) EXCEPT !.ix = r.ix]
  ELSE
  [Effect(Success([url |-> PageUrl, title |-> PageTitle, snapshot |-> r.text]), r.ix, Null)
     EXCEPT !.snapshot = r.text, !.snapEls = r.els]

HandleSnapshot == SnapshotResult(GenerateAriaSnapshot(IndexState))

BrokenMisrouted(action) == Effect(Success(<<"Navigated">>), IndexState, Null)

\* the navigate, goBack and goForward cases of handleAction
Misrouted(action) ==
  Effect(HandleError(<<"Navigation must be handled by background script">>), IndexState, Null)

\* the synchronous cases of handleAction's switch
Dispatch(action, payload) ==
  CASE action = "snapshot" -> HandleSnapshot
    [] action \in {"navigate", "goBack", "goForward"} -> Misrouted(action)
    [] action = "click" -> HandleClick(payload)
    [] action = "hover" -> HandleHover(payload)
    [] action = "type" -> HandleType(payload)
    [] action = "selectOption" -> HandleSelectOption(payload)
    [] action = "drag" -> HandleDrag(payload)
    [] action = "pressKey" -> HandlePressKey(payload)
    [] action = "getConsoleLogs" -> HandleGetConsoleLogs
    [] action = "getUrl" -> Effect(Success(PageUrl), IndexState, Null)
    [] action = "getTitle" -> Effect(Success(PageTitle), IndexState, Null)
    [] OTHER -> Effect(HandleError(<<"Unknown action", action>>), IndexState, Null)

\* the catch clause of handleAction: an exception thrown inside the switch
\* becomes the result handleError(message)
Caught(r) == IF r.throws THEN [r EXCEPT !.resp = HandleError(r.error)] ELSE r

HandleAction(action, payload) == Caught(Dispatch(action, payload))

\* payload.time || 1, in milliseconds, without the default
BrokenWaitDelay(payload) == payload.time * 1000

\* the delay handleWait passes to setTimeout: (payload.time || 1) * 1000
WaitDelay(payload) == (IF payload.time # 0 THEN payload.time ELSE 1) * 1000

Fulfilled(value) == [state |-> "fulfilled", value |-> value]
Rejected(reason) == [state |-> "rejected", reason |-> reason]

\* handleWait up to its await: reading payload.time of an undefined payload
\* rejects its promise, which handleAction returns without awaiting it, so
\* the rejection passes handleAction's catch clause
HandleWaitStart(payload) ==
  IF IsUndefined(payload) THEN Rejected(TypeErrorText) ELSE [state |-> "pending"]

\* a listener with no .catch
BrokenListenerResponses(outcome) ==
  IF outcome.state = "fulfilled" THEN <<outcome.value>> ELSE <<>>

\* the sendResponse calls of the onMessage listener for a settled promise:
\* .then(result => sendResponse(result)).catch(error => sendResponse({...}))
ListenerResponses(outcome) ==
  IF outcome.state = "fulfilled" THEN <<outcome.value>>
  ELSE <<[success |-> FALSE, error |-> outcome.reason]>>

----------------------------------------------------------------------------
(* Documents the index model starts from *)

\* a non-interactive wrapper and a button
Div == BlankEl
Btn == [BlankEl EXCEPT !.tag = "button", !.text = <<"G", "o">>]

IndexKinds == {Div, Btn}

RECURSIVE AncestorIn(_, _, _)
AncestorIn(d, a, n) ==
  d[n].parent # 0 /\ (d[n].parent = a \/ AncestorIn(d, a, d[n].parent))

\* position = document order: a parent precedes its subtree, which is contiguous
IsDocument(d) ==
  \A n \in 1..Len(d) :
    /\ d[n].parent < n
    /\ n > 1 => d[n].parent \in {0, n - 1} \/ AncestorIn(d, d[n].parent, n - 1)

\* an element is invisible here through its own style (opacity: 0), which
\* leaves the boxes and styles of its descendants alone; no code path reads
\* the visibility of a wrapper, so wrappers stay visible
IndexElements ==
  {[k EXCEPT !.parent = p, !.visible = v] :
     k \in IndexKinds, p \in 0..(MaxNodes - 1), v \in BOOLEAN}
  \ {[Div EXCEPT !.parent = p, !.visible = FALSE] : p \in 0..(MaxNodes - 1)}

IndexDocuments ==
  {d \in UNION {[1..n -> IndexElements] : n \in 0..MaxNodes} : IsDocument(d)}

\* arguments of the resolve calls
IndexArgs == 0..(MaxNodes + 1)
TextArgs == {<<"G", "O">>}

----------------------------------------------------------------------------
(* The index model: calls of the exported functions of aria-snapshot.ts on  *)
(* a document that page scripts may restyle between calls                   *)

SnapshotTaken == snapshot # <<>>

----------------------------------------------------------------------------
(* background.ts: the resource store and its update handlers *)

\* largest number of handleMessage() invocations in progress at once
MaxHandlers == 2

\* latest reading of Date.now() the model follows
MaxNow == 1

\* resource ids the messages name: resource 1 is saved, resource 2 is not
ResourceIds == {1, 2}

\* message.tags of UPDATE_TAGS
TagValues == {<<"t">>, <<"t", "u">>}

\* message.notes of UPDATE_NOTES
NoteValues == {"n"}

\* the fields of a Resource the update handlers read or write
SavedResource == [tags |-> <<>>, notes |-> "", updatedAt |-> 0]

\* the UPDATE_TAGS and UPDATE_NOTES messages
UpdateMessages ==
  [type : {"UPDATE_TAGS"}, id : ResourceIds, tags : TagValues, notes : {""}]
    \cup [type : {"UPDATE_NOTES"}, id : ResourceIds, tags : {<<>>}, notes : NoteValues]

\* a handleMessage() slot before its message
HandlerIdle ==
  [pc |-> "idle", message |-> [type |-> "none", id |-> 0, tags |-> <<>>, notes |-> ""],
   found |-> FALSE, resource |-> SavedResource, broadcast |-> FALSE, resp |-> <<>>]

\* before the first sendMessage() call of resource-storage.ts
NoSend ==
  [call |-> 0, message |-> "none", timeoutMs |-> 0, elapsed |-> 0, timer |-> "none",
   settled |-> FALSE, callback |-> "none", promise |-> "none", value |-> ""]

\* the router before its first message
RouterIdle ==
  [pc |-> "idle", action |-> "none", payload |-> Undefined, tabId |-> 0,
   listener |-> TRUE, calls |-> <<>>, elapsed |-> 0, resp |-> <<>>]

InitVars ==
  /\ waits = <<>>
  /\ lastMsg = [action |-> "none", payload |-> Undefined]
  /\ lastResp = <<>>
  /\ msgBit = 0
  /\ threw = FALSE
  /\ events = <<>>
  /\ located = Null
  /\ waited = 0
  /\ router = RouterIdle
  /\ resources = (1 :> SavedResource)
  /\ handlers = [h \in 1..MaxHandlers |-> HandlerIdle]
  /\ now = 0
  /\ hintsVisible = FALSE
  /\ allHints = <<>>
  /\ keyStrokeQueue = <<>>
  /\ selectTimer = FALSE
  /\ selectedHint = 0
  /\ send = NoSend
  /\ activeElement = 0
  /\ elementIndex = 0
  /\ elementIndexMap = <<>>
  /\ snapshot = <<>>
  /\ snapEls = <<>>
  /\ prevSnapshot = <<>>
  /\ resnap = "none"
  /\ mutated = FALSE
  /\ mutations = 0
  /\ findsSince = FALSE
  /\ lastCall = [op |-> "none"]
  /\ found = Null

Init ==
  /\ dom \in IndexDocuments
  /\ InitVars

\* generateAriaSnapshot()
CallGenerateAriaSnapshot ==
  \E r \in {GenerateAriaSnapshot(IndexState)} :
     /\ elementIndex' = r.ix.elementIndex
     /\ elementIndexMap' = r.ix.elementIndexMap
     /\ snapshot' = IF r.throws THEN snapshot ELSE r.text
     /\ snapEls' = IF r.throws THEN snapEls ELSE r.els
     /\ prevSnapshot' = IF SnapshotTaken /\ ~mutated /\ ~r.throws THEN snapshot ELSE <<>>
     /\ resnap' = IF SnapshotTaken /\ ~mutated /\ ~r.throws
                  THEN (IF findsSince THEN "afterResolve" ELSE "direct")
                  ELSE "none"
     /\ mutated' = FALSE
     /\ findsSince' = FALSE
     /\ lastCall' = [op |-> "generateAriaSnapshot"]
     /\ found' = Null
     /\ UNCHANGED <<pageVars, mutations, execVars, router, sideVars>>

\* findElementByIndex(index)
CallFindElementByIndex(index) ==
  \E r \in {FindElementByIndex(IndexState, index)} :
     /\ elementIndex' = r.ix.elementIndex
     /\ elementIndexMap' = r.ix.elementIndexMap
     /\ found' = r.element
     /\ lastCall' = [op |-> "findElementByIndex", index |-> index]
     /\ findsSince' = TRUE
     /\ resnap' = "none"
     /\ prevSnapshot' = <<>>
     /\ UNCHANGED <<pageVars, snapshot, snapEls, mutated, mutations, execVars, router, sideVars>>

\* findElementByText(text)
CallFindElementByText(text) ==
  /\ found' = IF FindByTextThrows(text) THEN Null ELSE FindElementByText(text)
  /\ lastCall' = [op |-> "findElementByText", text |-> text]
  /\ findsSince' = TRUE
  /\ resnap' = "none"
  /\ prevSnapshot' = <<>>
  /\ UNCHANGED <<pageVars, indexVars, snapshot, snapEls, mutated, mutations, execVars, router, sideVars>>

\* a page script shows or hides the interactive element n
MutateDOM(n) ==
  /\ n \in 1..Len(dom)
  /\ IsInteractive(n)
  /\ mutations < MaxMutations
  /\ dom' = [dom EXCEPT ![n].visible = ~@]
  /\ mutated' = TRUE
  /\ mutations' = mutations + 1
  /\ resnap' = "none"
  /\ prevSnapshot' = <<>>
  /\ UNCHANGED <<activeElement, indexVars, snapshot, snapEls, findsSince, callVars, execVars, router, sideVars>>

Next ==
  \/ CallGenerateAriaSnapshot
  \/ \E index \in IndexArgs : CallFindElementByIndex(index)
  \/ \E text \in TextArgs : CallFindElementByText(text)
  \/ \E n \in 1..MaxNodes : MutateDOM(n)

Spec == Init /\ [][Next]_vars

----------------------------------------------------------------------------
(* Claims about the index model (checked under Spec) *)

ResolvedAfterSnapshot ==
  lastCall.op = "findElementByIndex" /\ SnapshotTaken /\ ~mutated

\* C1: after generateAriaSnapshot() and with no DOM mutation since, for every
\* index i carried by a node of that snapshot, findElementByIndex(i) returns
\* the element that node describes, and the node is the i-th line of the
\* serialized snapshot.
C1_ResolveReturnsSnapshotNode ==
  ResolvedAfterSnapshot =>
    \A k \in 1..Len(snapEls) :
      snapshot[k].index = lastCall.index => k = lastCall.index /\ found = snapEls[k]

\* a nested node (second line, one level deep) of a snapshot was resolved
C1_Witness ==
  /\ ResolvedAfterSnapshot
  /\ Len(snapEls) >= 2
  /\ lastCall.index = 2
  /\ snapshot[2].indent = 1
  /\ found = snapEls[2]

\* C2 (as claimed): after a snapshot of N nodes and with no DOM mutation
\* since, findElementByIndex(i) returns null for every i < 1 and every i > N.
C2_OutOfRangeReturnsNull ==
  (ResolvedAfterSnapshot /\ (lastCall.index < 1 \/ lastCall.index > Len(snapEls)))
    => found = Null

\* C5: on an unchanged DOM a repeated generateAriaSnapshot() returns the same
\* output as the call before it, whatever resolve calls ran in between.
C5_SnapshotDeterministic ==
  resnap # "none" => snapshot = prevSnapshot

\* a snapshot was repeated after resolve calls, on a document holding an
\* interactive element that only a resolve call indexes
C5_Witness ==
  /\ resnap = "afterResolve"
  /\ Len(snapEls) >= 1
  /\ Len(InteractiveElements) > Len(snapEls)
  /\ snapshot[1].index = 1

----------------------------------------------------------------------------
(* Pages and messages the executor model starts from *)

\* a disabled <button>Go</button> carrying none, one or all of the attributes
\* onclick, role, class and tabindex
DisabledBtn == [Btn EXCEPT !.disabled = TRUE]
DisabledButtons ==
  { DisabledBtn,
    [DisabledBtn EXCEPT !.onclick = TRUE],
    [DisabledBtn EXCEPT !.role = "button"],
    [DisabledBtn EXCEPT !.class = ButtonWord],
    [DisabledBtn EXCEPT !.tabindex = <<"0">>],
    [DisabledBtn EXCEPT !.onclick = TRUE, !.role = "button", !.class = ButtonWord,
                        !.tabindex = <<"0">>] }

FormEl == [BlankEl EXCEPT !.tag = "form"]
TextInput == [BlankEl EXCEPT !.tag = "input", !.inputType = "text", !.id = <<"q">>,
                             !.placeholder = <<"S", "e", "a", "r", "c", "h">>]
TextArea == [BlankEl EXCEPT !.tag = "textarea", !.name = <<"n", "o", "t", "e">>, !.top = 20]

Option(value, text, selected) == [value |-> value, text |-> text, selected |-> selected]

\* <select><option value="a">Alpha</option><option value="b">Beta</option></select>
SelectEl(multiple) ==
  [BlankEl EXCEPT !.tag = "select", !.multiple = multiple,
                  !.options = <<Option(<<"a">>, <<"A", "l", "p", "h", "a">>, ~multiple),
                                Option(<<"b">>, <<"B", "e", "t", "a">>, FALSE)>>]

\* <select><option value="b">Beta</option><option value="a">Alpha</option></select>
SelectElReversed ==
  [BlankEl EXCEPT !.tag = "select",
                  !.options = <<Option(<<"b">>, <<"B", "e", "t", "a">>, TRUE),
                                Option(<<"a">>, <<"A", "l", "p", "h", "a">>, FALSE)>>]

\* <span id="x">Hi</span><span id="y">Yo</span>
\* <button aria-labelledby="x y">Go</button>
LabelledPage ==
  << [BlankEl EXCEPT !.tag = "span", !.id = <<"x">>, !.text = <<"H", "i">>],
     [BlankEl EXCEPT !.tag = "span", !.id = <<"y">>, !.text = <<"Y", "o">>],
     [Btn EXCEPT !.ariaLabelledby = << <<"x">>, <<"y">> >>] >>

\* <button id='a"b'>No</button>
BadIdBtn == [Btn EXCEPT !.id = <<"a", "\"", "b">>, !.text = <<"N", "o">>]

\* one button; a button whose id holds a double quote, followed by a plain
\* one; a page with nothing interactive; a form holding an input, followed
\* by a textarea outside it; one select
ExecDocuments ==
  {<<b>> : b \in DisabledButtons \cup {Btn}}
  \cup {<<BadIdBtn, Btn>>, <<Div>>}
  \cup {<<FormEl, [TextInput EXCEPT !.parent = 1], TextArea>>}
  \cup {<<SelectEl(m)>> : m \in BOOLEAN}
  \cup {<<SelectElReversed>>, LabelledPage}

Refs == {<<"1">>, <<"2">>, <<"x">>}
Queries == {<<"g", "o">>}

LocatorPayloads ==
  {[BlankPayload EXCEPT !.ref = r, !.element = e] :
     r \in Refs \cup {<<>>}, e \in Queries \cup {<<>>}}

TypePayloads ==
  {[l EXCEPT !.text = t, !.submit = sb] :
     l \in {[BlankPayload EXCEPT !.ref = <<"1">>], [BlankPayload EXCEPT !.ref = <<"2">>]},
     t \in {<<>>, <<"h", "i">>}, sb \in BOOLEAN}
  \cup {[BlankPayload EXCEPT !.ref = <<"x">>, !.element = <<"s", "e", "a">>,
                             !.text = <<"h", "i">>]}

SelectPayloads ==
  {[BlankPayload EXCEPT !.ref = <<"1">>, !.values = v] :
     v \in {<<>>, <<<<"a">>>>, <<<<"b">>>>, <<<<"a">>, <<"b">>>>, <<<<"z">>>>}}
  \cup {[BlankPayload EXCEPT !.ref = <<"x">>, !.element = <<"a">>, !.values = <<<<"b">>>>]}

DragPayloads ==
  {[BlankPayload EXCEPT !.startRef = a, !.endRef = b] :
     a \in {<<"1">>}, b \in {<<"2">>, <<>>}}
  \cup {[BlankPayload EXCEPT !.startRef = a, !.startElement = <<"s", "e", "a">>,
                             !.endRef = b, !.endElement = <<"s", "e", "a">>] :
          a \in {<<"1">>, <<"x">>}, b \in {<<"2">>, <<"x">>}}

KeyPayloads == {[BlankPayload EXCEPT !.key = k] : k \in {"", "Enter"}}

\* payload.time in seconds; 0 stands for an omitted time
WaitPayloads == {[BlankPayload EXCEPT !.time = t] : t \in {0, 2}}

\* action names outside the vocabulary
UnknownActions == {"scroll"}

\* the clock advances in steps of this many milliseconds
TickMs == 1000

\* largest number of wait actions suspended at once
MaxPendingWaits == 1

----------------------------------------------------------------------------
(* The executor model: the onMessage listener of automation.ts             *)

InitExec ==
  /\ dom \in ExecDocuments
  /\ InitVars

\* the listener answers with the result r of handleAction; the page is left
\* as the handler left it
Answer(r) ==
  /\ dom' = r.dom
  /\ activeElement' = r.activeElement
  /\ elementIndex' = r.ix.elementIndex
  /\ elementIndexMap' = r.ix.elementIndexMap
  /\ snapshot' = r.snapshot
  /\ snapEls' = r.snapEls
  /\ lastResp' = ListenerResponses(Fulfilled(r.resp))
  /\ msgBit' = 1 - msgBit
  /\ threw' = r.throws
  /\ events' = r.events
  /\ located' = r.target
  /\ waited' = 0
  /\ UNCHANGED <<prevSnapshot, resnap, mutated, mutations, findsSince, callVars, waits>>

\* the listener receives {type: 'AUTOMATION_ACTION', action, payload} for an
\* action that settles at once, runs the handler and answers
Receive(action, payload) == \E r \in {HandleAction(action, payload)} : Answer(r)

\* the message the listener was called with
Message(action, payload) == [action |-> action, payload |-> payload]

OnSnapshot ==
  /\ lastMsg' = Message("snapshot", Undefined)
  /\ Receive("snapshot", Undefined)
  /\ UNCHANGED <<router, sideVars>>

OnMisrouted ==
  \E action \in {"navigate", "goBack", "goForward"} :
    /\ lastMsg' = Message(action, BlankPayload)
    /\ Receive(action, BlankPayload)
    /\ UNCHANGED <<router, sideVars>>

OnClick ==
  \E payload \in LocatorPayloads \cup {Undefined} :
    /\ lastMsg' = Message("click", payload)
    /\ Receive("click", payload)
    /\ UNCHANGED <<router, sideVars>>

OnHover ==
  \E payload \in LocatorPayloads \cup {Undefined} :
    /\ lastMsg' = Message("hover", payload)
    /\ Receive("hover", payload)
    /\ UNCHANGED <<router, sideVars>>

OnType ==
  \E payload \in TypePayloads \cup {Undefined} :
    /\ lastMsg' = Message("type", payload)
    /\ Receive("type", payload)
    /\ UNCHANGED <<router, sideVars>>

OnSelectOption ==
  \E payload \in SelectPayloads \cup {Undefined} :
    /\ lastMsg' = Message("selectOption", payload)
    /\ Receive("selectOption", payload)
    /\ UNCHANGED <<router, sideVars>>

OnDrag ==
  \E payload \in DragPayloads \cup {Undefined} :
    /\ lastMsg' = Message("drag", payload)
    /\ Receive("drag", payload)
    /\ UNCHANGED <<router, sideVars>>

OnPressKey ==
  \E payload \in KeyPayloads \cup {Undefined} :
    /\ lastMsg' = Message("pressKey", payload)
    /\ Receive("pressKey", payload)
    /\ UNCHANGED <<router, sideVars>>

OnGetConsoleLogs ==
  /\ lastMsg' = Message("getConsoleLogs", Undefined)
  /\ Receive("getConsoleLogs", Undefined)
  /\ UNCHANGED <<router, sideVars>>

OnGetUrl ==
  /\ lastMsg' = Message("getUrl", Undefined)
  /\ Receive("getUrl", Undefined)
  /\ UNCHANGED <<router, sideVars>>

OnGetTitle ==
  /\ lastMsg' = Message("getTitle", Undefined)
  /\ Receive("getTitle", Undefined)
  /\ UNCHANGED <<router, sideVars>>

OnUnknown ==
  \E action \in UnknownActions :
    /\ lastMsg' = Message(action, Undefined)
    /\ Receive(action, Undefined)
    /\ UNCHANGED <<router, sideVars>>

\* the listener receives a wait action: handleWait arms its timer, or
\* rejects at once on an undefined payload
OnWait ==
  \E payload \in WaitPayloads \cup {Undefined} :
    LET out == HandleWaitStart(payload)
    IN /\ out.state = "pending" => Len(waits) < MaxPendingWaits
       /\ waits' = IF out.state = "pending"
                   THEN Append(waits, [payload |-> payload, delay |-> WaitDelay(payload),
                                       elapsed |-> 0])
                   ELSE waits
       /\ lastMsg' = [action |-> "wait", payload |-> payload]
       /\ lastResp' = IF out.state = "pending" THEN <<>> ELSE ListenerResponses(out)
       /\ msgBit' = 1 - msgBit
       /\ threw' = (out.state = "rejected")
       /\ events' = <<>>
       /\ located' = Null
       /\ waited' = 0
       /\ UNCHANGED <<pageVars, indexVars, snapVars, callVars, router, sideVars>>

\* time passes while a timer is still running; a timer that has reached its
\* delay is due and its clock is no longer read
Tick ==
  /\ \E k \in 1..Len(waits) : waits[k].elapsed < waits[k].delay
  /\ waits' = [k \in 1..Len(waits) |->
               IF waits[k].elapsed < waits[k].delay
               THEN [waits[k] EXCEPT !.elapsed = @ + TickMs] ELSE waits[k]]
  /\ UNCHANGED <<pageVars, indexVars, snapVars, callVars,
                 lastMsg, lastResp, msgBit, threw, events, located, waited, router,
                 sideVars>>

\* setTimeout runs its callback no earlier than the delay: handleWait resumes,
\* handleAction's promise fulfils and the listener answers
\* a timer that is run only while no other message has been handled since
\* its wait arrived
BrokenTimerFires ==
  \E k \in 1..Len(waits) :
    /\ lastMsg.action = "wait"
    /\ waits[k].elapsed >= waits[k].delay
    /\ waits' = SubSeq(waits, 1, k - 1) \o SubSeq(waits, k + 1, Len(waits))
    /\ lastMsg' = [action |-> "wait", payload |-> waits[k].payload]
    /\ lastResp' = ListenerResponses(
                     Fulfilled(Success(<<"Waited for", waits[k].delay \div 1000>>)))
    /\ threw' = FALSE
    /\ events' = <<>>
    /\ located' = Null
    /\ waited' = waits[k].elapsed
    /\ UNCHANGED <<pageVars, indexVars, snapVars, callVars, msgBit, router, sideVars>>

TimerFires ==
  \E k \in 1..Len(waits) :
    /\ waits[k].elapsed >= waits[k].delay
    /\ waits' = SubSeq(waits, 1, k - 1) \o SubSeq(waits, k + 1, Len(waits))
    /\ lastMsg' = [action |-> "wait", payload |-> waits[k].payload]
    /\ lastResp' = ListenerResponses(
                     Fulfilled(Success(<<"Waited for", waits[k].delay \div 1000>>)))
    /\ threw' = FALSE
    /\ events' = <<>>
    /\ located' = Null
    /\ waited' = waits[k].elapsed
    /\ UNCHANGED <<pageVars, indexVars, snapVars, callVars, msgBit, router, sideVars>>

NextExec ==
  \/ OnSnapshot \/ OnMisrouted \/ OnClick \/ OnHover \/ OnType \/ OnSelectOption
  \/ OnDrag \/ OnPressKey \/ OnGetConsoleLogs \/ OnGetUrl \/ OnGetTitle \/ OnUnknown
  \/ OnWait \/ Tick \/ TimerFires

SpecExec == InitExec /\ [][NextExec]_vars

\* the executor receiving waits and the actions that act on page elements
NextExecTimed ==
  \/ OnMisrouted \/ OnClick \/ OnHover \/ OnType \/ OnSelectOption
  \/ OnDrag \/ OnPressKey \/ OnUnknown
  \/ OnWait \/ Tick \/ TimerFires

\* the page's clock advances and the event loop runs every due timer
SpecExecFair ==
  /\ InitExec
  /\ [][NextExecTimed]_vars
  /\ WF_waits(Tick)
  /\ WF_waits(TimerFires)

----------------------------------------------------------------------------
(* Claims about the executor *)

\* one response, a failure whose error message starts with the given text
FailedWith(responses, text) ==
  /\ Len(responses) = 1
  /\ ~responses[1].success
  /\ responses[1].error[1] = text

\* the latest message was a click whose locator resolved a disabled <button>
ClickedDisabledButton ==
  /\ lastMsg.action = "click"
  /\ located # Null
  /\ dom[located].tag = "button"
  /\ dom[located].disabled

\* C3: a click that resolves a disabled <button>, whatever its onclick, role,
\* class and tabindex and whether it was located by ref or by text, is
\* answered with the not-clickable failure and never calls element.click().
C3_DisabledButtonNotClicked ==
  ClickedDisabledButton =>
    /\ FailedWith(lastResp, "Element is not clickable")
    /\ lastResp[1].error[2] = LocatorText(lastMsg.payload)
    /\ \A i \in 1..Len(events) : events[i].type # "click()"

\* a value of the form {success: boolean, data?, error?}
IsResult(r) ==
  /\ "success" \in DOMAIN r
  /\ DOMAIN r \subseteq {"success", "data", "error"}
  /\ r.success \in BOOLEAN

\* C4: every AUTOMATION_ACTION message the executor receives is answered
\* exactly once with a result {success, data?, error?}: at once, or by the one
\* timer it arms, which answers once when it fires; a handler that throws is
\* answered {success: false, error: message}.
C4_EveryMessageAnsweredOnce ==
  [][ /\ msgBit' # msgBit =>
           \/ /\ Len(lastResp') = 1
              /\ IsResult(lastResp'[1])
              /\ waits' = waits
           \/ /\ lastResp' = <<>>
              /\ Len(waits') = Len(waits) + 1
              /\ waits'[Len(waits')].payload = lastMsg'.payload
      /\ Len(waits') < Len(waits) =>
           /\ Len(waits') = Len(waits) - 1
           /\ Len(lastResp') = 1
           /\ IsResult(lastResp'[1])
      /\ threw' => /\ \/ FailedWith(lastResp', TypeErrorText[1])
                       \/ FailedWith(lastResp', SelectorErrorText[1])
                    /\ DOMAIN lastResp'[1] = {"success", "error"}
    ]_vars

\* a handler threw on a missing payload, inside and past handleAction's try
C4_Witness ==
  /\ threw
  /\ lastMsg.action = "wait"
  /\ IsUndefined(lastMsg.payload)
  /\ FailedWith(lastResp, TypeErrorText[1])

\* the element the locator of the latest message denotes
Denoted == Locate(IndexState, lastMsg.payload.ref, lastMsg.payload.element).element

\* C6: type with text t on a resolved <input> or <textarea> leaves its value
\* equal to t and dispatches one input event, then one change event, on it,
\* and with submit on an element with an owning form one submit event on the
\* form after them.
C6_TypeSetsValueAndFiresEvents ==
  ( /\ lastMsg.action = "type"
    /\ ~IsUndefined(lastMsg.payload)
    /\ Denoted # Null
    /\ dom[Denoted].tag \in {"input", "textarea"} ) =>
      /\ dom[Denoted].value = lastMsg.payload.text
      /\ Len(events) >= 2
      /\ events[1].type = "input" /\ events[1].target = Denoted
      /\ events[2].type = "change" /\ events[2].target = Denoted
      /\ IF lastMsg.payload.submit /\ FormOwner(Denoted) # Null
         THEN /\ Len(events) = 3
              /\ events[3].type = "submit" /\ events[3].target = FormOwner(Denoted)
         ELSE Len(events) = 2

\* the positions of the events of one type in the log of the latest handler
EventsOfType(type) == {i \in 1..Len(events) : events[i].type = type}

\* the latest message was a selectOption that reached a <select>
SelectedOnSelect ==
  /\ lastMsg.action = "selectOption"
  /\ ~IsUndefined(lastMsg.payload)
  /\ lastMsg.payload.values # <<>>
  /\ located # Null
  /\ dom[located].tag = "select"

\* C7: selectOption with a non-empty values list on a resolved <select>
\* dispatches exactly one change event on the select, after every option
\* assignment, whatever the number of values and of matches.
C7_SelectOptionOneChange ==
  SelectedOnSelect =>
    /\ EventsOfType("change") = {Len(events)}
    /\ events[Len(events)].target = located
    /\ EventsOfType("selected=true") = 1..(Len(events) - 1)
    /\ Len(events) - 1 <= Len(lastMsg.payload.values)

\* two requested values, both matched, then one change
C7_Witness ==
  /\ SelectedOnSelect
  /\ Len(lastMsg.payload.values) = 2
  /\ Len(events) = 3
  /\ events[3].type = "change"

\* C8: a wait with time t is answered {success: true} and never before t
\* seconds have passed since it was issued; an omitted time counts as 1 s.
C8_WaitNeverEarly ==
  ( /\ lastMsg.action = "wait"
    /\ ~IsUndefined(lastMsg.payload)
    /\ lastResp # <<>> ) =>
      /\ Len(lastResp) = 1
      /\ lastResp[1].success
      /\ waited >= 1000 * (IF lastMsg.payload.time = 0 THEN 1 ELSE lastMsg.payload.time)

\* a wait with no time was answered
C8_Witness ==
  /\ lastMsg.action = "wait"
  /\ ~IsUndefined(lastMsg.payload)
  /\ lastMsg.payload.time = 0
  /\ lastResp # <<>>
  /\ waited >= 1000

\* C9: navigate, goBack and goForward at the executor are answered with the
\* 'must be handled by background' failure; the step dispatches no event and
\* leaves the document, the focus and the index state as they were.
C9_MisroutedNavigationRefused ==
  [][ (msgBit' # msgBit /\ lastMsg'.action \in {"navigate", "goBack", "goForward"}) =>
        /\ FailedWith(lastResp', "Navigation must be handled by background script")
        /\ events' = <<>>
        /\ UNCHANGED <<pageVars, indexVars, snapshot, waits>>
    ]_vars

\* goBack reached the executor of a page that had handled a click before
C9_Witness ==
  /\ lastMsg.action = "goBack"
  /\ Len(lastResp) = 1
  /\ ~lastResp[1].success
  /\ elementIndex > 0

----------------------------------------------------------------------------
(* background.ts: the router of AUTOMATION_ACTION messages.  It serves one  *)
(* message at a time; router.calls logs its chrome.tabs calls in order and  *)
(* router.resp its sendResponse calls.                                      *)

NavigationActions == {"navigate", "goBack", "goForward"}

\* the chrome.tabs call of each navigation case
TabApi(action) ==
  CASE action = "navigate" -> "tabs.update"
    [] action = "goBack" -> "tabs.goBack"
    [] action = "goForward" -> "tabs.goForward"

\* a settle delay of one second whatever the action
BrokenSettleDelay(action) == 1000

\* the setTimeout delay after the tab API call, in milliseconds
SettleDelay(action) == IF action = "navigate" THEN 2000 ELSE 1000

\* the data of the success result of each navigation case
Navigated(action, payload) ==
  CASE action = "navigate" -> <<"Navigated to", payload.url>>
    [] action = "goBack" -> <<"Navigated back">>
    [] action = "goForward" -> <<"Navigated forward">>

\* the result returned when no tab with an id was found
NoTab(action) ==
  IF action \in NavigationActions THEN HandleError(<<"No active tab found">>)
  ELSE HandleError(<<"No active tab for content script action">>)

\* the catch clause of handleMessage
MessageHandlerError(message) == [success |-> FALSE, error |-> message]

\* a handleMessage whose catch clause sends nothing
BrokenRouterResponses(outcome) ==
  IF outcome.state = "fulfilled" THEN <<outcome.value>> ELSE <<>>

\* the sendResponse calls of handleMessage for the settled promise of
\* handleAutomationAction: sendResponse(result), or the catch clause
RouterResponses(outcome) ==
  IF outcome.state = "fulfilled" THEN <<outcome.value>>
  ELSE <<MessageHandlerError(outcome.reason)>>

\* the error chrome.tabs.sendMessage rejects with when the tab has no listener
NoReceiverText == <<"Could not establish connection. Receiving end does not exist.">>

\* the actions, payloads and pages the router model runs with
ForwardedActions == {"click", "getUrl"} \cup UnknownActions
RouterPayloads ==
  {Undefined, [BlankPayload EXCEPT !.ref = <<"1">>, !.url = <<"a">>]}
RouterDocuments == {<<Btn>>, <<[DisabledBtn EXCEPT !.onclick = TRUE]>>}

\* sender.tab?.id (0 = the message came from the side panel)
SenderTabs == {0, 1}

InitRouter ==
  /\ dom \in RouterDocuments
  /\ InitVars

\* handleAutomationAction up to its first await: every navigation case, and
\* the default case of a sender without a tab, first queries the active tab.
\* router.listener tells whether the automation listener is installed in the
\* active tab; the tab of a sender that is a content script has it.
RouterReceive ==
  \E action \in NavigationActions \cup ForwardedActions,
     payload \in RouterPayloads, sender \in SenderTabs, listener \in BOOLEAN :
    /\ router.pc \in {"idle", "done"}
    /\ sender # 0 => listener
    /\ router' = IF action \in NavigationActions \/ sender = 0
                 THEN [RouterIdle EXCEPT !.pc = "query", !.action = action,
                         !.payload = payload, !.listener = listener,
                         !.calls = <<"tabs.query">>]
                 ELSE [RouterIdle EXCEPT !.pc = "send", !.action = action,
                         !.payload = payload, !.tabId = sender,
                         !.calls = <<"tabs.sendMessage">>]
    /\ UNCHANGED <<pageVars, indexVars, snapVars, callVars, execVars, sideVars>>

\* chrome.tabs.query resolves with no tab that has an id: the result is a failure
QueryFindsNoTab ==
  /\ router.pc = "query"
  /\ router' = [router EXCEPT !.pc = "done", !.resp = <<NoTab(router.action)>>]
  /\ UNCHANGED <<pageVars, indexVars, snapVars, callVars, execVars, sideVars>>

\* chrome.tabs.query resolves with a tab: the navigation cases call their tab
\* API (navigate reads payload.url first), the default case sends the message
QueryFindsTab ==
  \E tab \in {1} :
    /\ router.pc = "query"
    /\ router' =
         IF router.action \notin NavigationActions
         THEN [router EXCEPT !.pc = "send", !.tabId = tab,
                             !.calls = Append(@, "tabs.sendMessage")]
         ELSE IF router.action = "navigate" /\ IsUndefined(router.payload)
         THEN [router EXCEPT !.pc = "done", !.tabId = tab,
                             !.resp = RouterResponses(Rejected(TypeErrorText))]
         ELSE [router EXCEPT !.pc = "api", !.tabId = tab,
                             !.calls = Append(@, TabApi(router.action))]
    /\ UNCHANGED <<pageVars, indexVars, snapVars, callVars, execVars, sideVars>>

\* a chrome.tabs promise rejects: handleMessage's catch answers with the error
TabCallRejects ==
  /\ router.pc \in {"query", "api", "send"}
  /\ router' = [router EXCEPT !.pc = "done",
                              !.resp = RouterResponses(Rejected(<<"tabs error">>))]
  /\ UNCHANGED <<pageVars, indexVars, snapVars, callVars, execVars, sideVars>>

\* the tab API call resolves and the settle timer is armed
TabApiResolves ==
  /\ router.pc = "api"
  /\ router' = [router EXCEPT !.pc = "settle", !.elapsed = 0]
  /\ UNCHANGED <<pageVars, indexVars, snapVars, callVars, execVars, sideVars>>

\* time passes while the settle timer runs
RouterTick ==
  /\ router.pc = "settle"
  /\ router.elapsed < SettleDelay(router.action)
  /\ router' = [router EXCEPT !.elapsed = @ + TickMs]
  /\ UNCHANGED <<pageVars, indexVars, snapVars, callVars, execVars, sideVars>>

\* the settle timer fires no earlier than its delay: the success result is returned
SettleTimerFires ==
  /\ router.pc = "settle"
  /\ router.elapsed >= SettleDelay(router.action)
  /\ router' = [router EXCEPT !.pc = "done",
                  !.resp = <<Success(Navigated(router.action, router.payload))>>]
  /\ UNCHANGED <<pageVars, indexVars, snapVars, callVars, execVars, sideVars>>

\* the page's listener handles the forwarded message and its response is
\* returned as the result
ForwardDelivered ==
  /\ router.pc = "send"
  /\ router.listener
  /\ lastMsg' = Message(router.action, router.payload)
  /\ Receive(router.action, router.payload)
  /\ router' = [router EXCEPT !.pc = "done", !.resp = lastResp']
  /\ UNCHANGED sideVars

\* no listener answers in the tab: chrome.tabs.sendMessage rejects and the
\* catch clause of handleMessage answers with the error
SendFindsNoListener ==
  /\ router.pc = "send"
  /\ ~router.listener
  /\ router' = [router EXCEPT !.pc = "done",
                              !.resp = RouterResponses(Rejected(NoReceiverText))]
  /\ UNCHANGED <<pageVars, indexVars, snapVars, callVars, execVars, sideVars>>

NextRouter ==
  \/ RouterReceive \/ QueryFindsNoTab \/ QueryFindsTab \/ TabCallRejects
  \/ TabApiResolves \/ RouterTick \/ SettleTimerFires \/ ForwardDelivered
  \/ SendFindsNoListener

SpecRouter == InitRouter /\ [][NextRouter]_vars

\* the browser settles every chrome.tabs promise and runs every due timer
SpecRouterFair ==
  /\ SpecRouter
  /\ WF_vars(QueryFindsNoTab \/ QueryFindsTab)
  /\ WF_vars(TabApiResolves)
  /\ WF_vars(RouterTick)
  /\ WF_vars(SettleTimerFires)
  /\ WF_vars(ForwardDelivered)
  /\ WF_vars(SendFindsNoListener)

----------------------------------------------------------------------------
(* Claims about the router *)

\* C10: the router serves navigate, goBack and goForward through the tab
\* APIs and never sends them to the page's executor; its success result comes
\* only after the settle delay (2 s after navigate, 1 s after goBack and
\* goForward) and after the one tab API call of the action; when the query
\* finds no active tab the result is a failure and neither tabs.update, nor
\* tabs.goBack, nor tabs.goForward, nor tabs.sendMessage has been called.
C10_RouterNavigatesItself ==
  /\ lastMsg.action \notin NavigationActions
  /\ router.action \in NavigationActions =>
       /\ \A i \in 1..Len(router.calls) : router.calls[i] # "tabs.sendMessage"
       /\ (router.resp # <<>> /\ router.resp[1].success) =>
            /\ router.elapsed >= (IF router.action = "navigate" THEN 2000 ELSE 1000)
            /\ router.calls = <<"tabs.query", TabApi(router.action)>>
       /\ (router.pc = "done" /\ router.tabId = 0) =>
            /\ Len(router.resp) = 1
            /\ ~router.resp[1].success
            /\ router.calls = <<"tabs.query">>

\* navigate succeeded once two seconds had passed
C10_Witness ==
  /\ router.action = "navigate"
  /\ router.pc = "done"
  /\ router.resp[1].success
  /\ router.elapsed >= 2000

\* C11: a page-local action sent to a tab without the automation listener is
\* eventually answered by the router with one {success: false, error}.
C11_NoListenerAnswered ==
  (router.pc = "send" /\ ~router.listener) ~>
    (/\ router.pc = "done"
     /\ Len(router.resp) = 1
     /\ ~router.resp[1].success
     /\ DOMAIN router.resp[1] = {"success", "error"})

\* the router answered with the error of the rejected chrome.tabs.sendMessage
C11_Witness ==
  /\ router.pc = "done"
  /\ router.action \in ForwardedActions
  /\ ~router.listener
  /\ router.calls = <<"tabs.query", "tabs.sendMessage">>
  /\ router.resp = <<[success |-> FALSE, error |-> NoReceiverText]>>

\* C12: an action name outside the vocabulary is answered {success: false}
\* with an unknown-action error, by the router as well as by the executor,
\* and the page is left without an event.
C12_UnknownActionRefused ==
  /\ lastMsg.action \in UnknownActions =>
       /\ FailedWith(lastResp, "Unknown action")
       /\ events = <<>>
  /\ (router.action \in UnknownActions /\ router.pc = "done") =>
       FailedWith(router.resp, "Unknown action")

\* C13: a snapshot never fails as a whole: the snapshot action answers
\* success:true, and the elements whose capture does not throw are in it
C13_SnapshotNeverFails ==
  lastMsg.action = "snapshot" =>
    /\ Len(lastResp) = 1 /\ lastResp[1].success
    /\ \A e \in 1..Len(dom) :
         (IsInteractive(e) /\ IsVisible(e) /\ ~NameThrows(e))
           => \E i \in 1..Len(snapEls) : snapEls[i] = e

\* C14: on a page with no visible interactive element the snapshot is the
\* non-empty sentinel text, and the snapshot action answers success:true
C14_EmptyPageSentinel ==
  (lastMsg.action = "snapshot" /\ InteractiveElements = <<>>) =>
    /\ Len(lastResp) = 1 /\ lastResp[1].success
    /\ Len(lastResp[1].data.snapshot) = 1
    /\ lastResp[1].data.snapshot[1].raw = "No interactive elements found"
    /\ snapshot = lastResp[1].data.snapshot

C14_Witness ==
  /\ lastMsg.action = "snapshot" /\ InteractiveElements = <<>> /\ Len(dom) > 0
  /\ lastResp = <<Success([url |-> PageUrl, title |-> PageTitle,
                           snapshot |-> <<[raw |-> "No interactive elements found"]>>])>>

\* C15: every node of a snapshot, at any depth, is an element that was
\* visible and interactive when the snapshot was taken
C15_SnapshotNodesVisibleInteractive ==
  ~mutated => \A i \in 1..Len(snapEls) : IsVisible(snapEls[i]) /\ IsInteractive(snapEls[i])

\* a snapshot with a node at depth 1 that left out a hidden interactive
\* child of a captured element
C15_Witness ==
  /\ lastCall.op = "generateAriaSnapshot" /\ ~mutated
  /\ \E i \in 1..Len(snapshot) : "indent" \in DOMAIN snapshot[i] /\ snapshot[i].indent = 1
  /\ \E p \in 1..Len(dom), c \in 1..Len(dom) :
       /\ dom[c].parent = p /\ IsInteractive(c) /\ ~IsVisible(c)
       /\ (\E i \in 1..Len(snapEls) : snapEls[i] = p)
       /\ ~(\E i \in 1..Len(snapEls) : snapEls[i] = c)

\* the visible interactive elements whose accessible name or trimmed text
\* contains q, case-insensitively
Containing(q) ==
  {e \in 1..Len(dom) :
     /\ IsInteractive(e) /\ IsVisible(e)
     /\ \/ Includes(ToLowerCase(GetAccessibleName(e)), ToLowerCase(q))
        \/ Includes(ToLowerCase(Trim(TextContent(e))), ToLowerCase(q))}

\* C16: findElementByText(q) returns the first visible interactive element,
\* in document order, whose accessible name or trimmed text contains q
\* case-insensitively, and null when there is none (observed through hover
\* with a text query only, which changes nothing on the page)
C16_FirstMatchInDocumentOrder ==
  ( /\ lastMsg.action = "hover"
    /\ ~IsUndefined(lastMsg.payload)
    /\ lastMsg.payload.ref = <<>>
    /\ lastMsg.payload.element # <<>> ) =>
      /\ ~threw
      /\ located = IF Containing(lastMsg.payload.element) = {} THEN Null
                   ELSE CHOOSE e \in Containing(lastMsg.payload.element) :
                          \A o \in Containing(lastMsg.payload.element) : e <= o

\* the payload of the message being received supplies both a ref and a text
BothSupplied(msg) ==
  /\ ~IsUndefined(msg.payload)
  /\ \/ /\ msg.action \in {"click", "hover", "selectOption"}
        /\ msg.payload.ref # <<>> /\ msg.payload.element # <<>>
     \/ /\ msg.action = "type" /\ msg.payload.text # <<>>
        /\ msg.payload.ref # <<>> /\ msg.payload.element # <<>>

BothSuppliedDrag(msg) ==
  /\ msg.action = "drag" /\ ~IsUndefined(msg.payload)
  /\ msg.payload.startRef # <<>> /\ msg.payload.startElement # <<>>
  /\ msg.payload.endRef # <<>> /\ msg.payload.endElement # <<>>

\* C17: with both ref and element in the payload, click, hover, type and
\* selectOption act on the element the ref denotes and fail with 'Element
\* not found' when the ref denotes none; drag does the same for each of its
\* endpoints; the text query is not run (its exception never appears)
C17_RefTakesPrecedence ==
  [][ /\ (msgBit' # msgBit /\ BothSupplied(lastMsg')) =>
          /\ ~threw'
          /\ located' = FindElementByIndex(IndexState, ParseInt(lastMsg'.payload.ref)).element
          /\ located' = Null => (FailedWith(lastResp', "Element not found") /\ events' = <<>>)
      /\ (msgBit' # msgBit /\ BothSuppliedDrag(lastMsg')) =>
          LET s == FindElementByIndex(IndexState, ParseInt(lastMsg'.payload.startRef))
              e == FindElementByIndex(s.ix, ParseInt(lastMsg'.payload.endRef))
          IN /\ ~threw'
             /\ IF s.element = Null \/ e.element = Null
                THEN /\ FailedWith(lastResp', "Elements not found for drag operation")
                     /\ events' = <<>>
                ELSE /\ Len(events') = 3
                     /\ events'[1].target = s.element
                     /\ events'[3].target = e.element
    ]_vars

\* a click whose ref denotes nothing and whose text names an element of the
\* page was answered 'Element not found'
C17_Witness ==
  /\ lastMsg.action = "click" /\ ~IsUndefined(lastMsg.payload)
  /\ lastMsg.payload.ref = <<"x">> /\ lastMsg.payload.element = <<"g", "o">>
  /\ Containing(lastMsg.payload.element) # {}
  /\ FailedWith(lastResp, "Element not found")
  /\ located = Null

\* C18: type with the empty text on an input or textarea that the payload
\* resolves is not answered with a 'text is required' failure
C18_EmptyTextNotRejected ==
  ( /\ lastMsg.action = "type"
    /\ ~IsUndefined(lastMsg.payload)
    /\ lastMsg.payload.text = <<>>
    /\ Denoted # Null
    /\ dom[Denoted].tag \in {"input", "textarea"} ) =>
      ~FailedWith(lastResp, "Text is required for type action")

\* the type, target and position of a dispatched event
Dispatched(e) == <<e.type, e.target, e.clientX, e.clientY>>

\* type and target of an event at the centre of the box of element n
AtCentre(type, n) ==
  <<type, n, dom[n].left + dom[n].width \div 2, dom[n].top + dom[n].height \div 2>>

\* C19: a drag whose two endpoints resolve dispatches mousedown at the centre
\* of the start element, mousemove at the centre of the end element and
\* mouseup at the centre of the end element, in this order and nothing else;
\* a drag with an unresolved endpoint answers success:false and dispatches
\* nothing
C19_DragThreeEvents ==
  [][ (msgBit' # msgBit /\ lastMsg'.action = "drag" /\ ~IsUndefined(lastMsg'.payload)) =>
        LET p == lastMsg'.payload
            s == Locate(IndexState, p.startRef, p.startElement)
        IN IF s.element # Null /\ Locate(s.ix, p.endRef, p.endElement).element # Null
           THEN /\ Len(lastResp') = 1 /\ lastResp'[1].success
                /\ [i \in 1..Len(events') |-> Dispatched(events'[i])]
                     = << AtCentre("mousedown", s.element),
                          AtCentre("mousemove", Locate(s.ix, p.endRef, p.endElement).element),
                          AtCentre("mouseup", Locate(s.ix, p.endRef, p.endElement).element) >>
           ELSE /\ Len(lastResp') = 1 /\ ~lastResp'[1].success
                /\ events' = <<>>
                /\ dom' = dom
    ]_vars

\* a drag from one element to another at a different position
C19_Witness ==
  /\ lastMsg.action = "drag" /\ Len(lastResp) = 1 /\ lastResp[1].success
  /\ Len(events) = 3
  /\ events[1].target # events[3].target
  /\ <<events[1].clientY, events[2].clientY, events[3].clientY>> = <<5, 25, 25>>

\* C20: no index state persists between calls: findElementByIndex(i) returns
\* what it returns on the same document with a fresh index state, and a call
\* of findElementByIndex or findElementByText leaves the index counter and
\* the element-to-index map as they were
C20_NoIndexStatePersists ==
  [][ /\ (dom' = dom /\ lastCall'.op = "findElementByIndex")
          => found' = FindElementByIndex([elementIndex |-> 0, elementIndexMap |-> <<>>],
                                         lastCall'.index).element
      /\ lastCall'.op \in {"findElementByIndex", "findElementByText"}
          => (elementIndex' = elementIndex /\ elementIndexMap' = elementIndexMap) ]_vars

\* the nearest ancestor of n that is interactive, 0 when there is none
RECURSIVE NearestInteractiveAncestor(_)
NearestInteractiveAncestor(n) ==
  IF dom[n].parent = 0 THEN Null
  ELSE IF IsInteractive(dom[n].parent) THEN dom[n].parent
  ELSE NearestInteractiveAncestor(dom[n].parent)

\* C21: each visible interactive element appears exactly once in the
\* snapshot: as a root when it has no interactive ancestor or its nearest
\* interactive ancestor is not visible, otherwise as a child, also when
\* non-interactive wrappers lie between it and that ancestor
C21_EachElementExactlyOnce ==
  (SnapshotTaken /\ ~mutated) =>
    \A e \in 1..Len(dom) :
      (IsInteractive(e) /\ IsVisible(e)) =>
        /\ Cardinality({i \in 1..Len(snapEls) : snapEls[i] = e}) = 1
        /\ \A i \in 1..Len(snapEls) :
             snapEls[i] = e =>
               ((snapshot[i].indent = 0) <=>
                  \/ NearestInteractiveAncestor(e) = Null
                  \/ ~IsVisible(NearestInteractiveAncestor(e)))

\* C22: in every snapshot with N nodes the indices are 1..N, each once, in
\* increasing order along the serialized lines, and the lines follow the
\* document order of the captured elements, whatever calls came before
C22_IndicesOneToN ==
  snapEls # <<>> =>
    /\ Len(snapshot) = Len(snapEls)
    /\ \A i \in 1..Len(snapshot) : snapshot[i].index = i
    /\ \A i \in 1..(Len(snapEls) - 1) : snapEls[i] < snapEls[i + 1]

\* a snapshot of three nodes taken after resolve calls that followed an
\* earlier snapshot
C22_Witness ==
  /\ resnap = "afterResolve"
  /\ Len(snapEls) = 3
  /\ snapshot[3].index = 3
  /\ elementIndex = 3

\* the failures of an unresolved locator and of the actions' preconditions
LocatorFailures ==
  {"Element not found", "Element is not clickable", "Element is not an input",
   "Element is not a select"}

\* C23: when click, hover, type or selectOption fails because the locator
\* resolves nothing or the element fails the action's precondition, the
\* answer is {success: false, error} and the page is untouched: no event,
\* no native click, no change of focus, value or selection
C23_FailureLeavesPageUntouched ==
  [][ ( /\ msgBit' # msgBit
        /\ lastMsg'.action \in {"click", "hover", "type", "selectOption"}
        /\ Len(lastResp') = 1 /\ ~lastResp'[1].success
        /\ lastResp'[1].error[1] \in LocatorFailures ) =>
          /\ DOMAIN lastResp'[1] = {"success", "error"}
          /\ events' = <<>>
          /\ dom' = dom
          /\ activeElement' = activeElement
    ]_vars

\* a type on a resolved button was refused and the button did not take the
\* focus
C23_Witness ==
  /\ lastMsg.action = "type"
  /\ FailedWith(lastResp, "Element is not an input")
  /\ located # Null /\ dom[located].tag = "button" /\ ~dom[located].disabled
  /\ activeElement # located
  /\ events = <<>>

\* C24: a pending wait does not block the executor: a request that arrives
\* while a wait is suspended is answered at once and leaves the wait and its
\* timer as they were, and a suspended wait is answered in the end, after
\* its duration
C24_WaitDoesNotBlock ==
  /\ [][ (msgBit' # msgBit /\ waits # <<>> /\ lastMsg'.action # "wait") =>
            /\ Len(lastResp') = 1 /\ IsResult(lastResp'[1])
            /\ waits' = waits ]_vars
  /\ (waits # <<>>) ~>
        (/\ lastMsg.action = "wait" /\ Len(lastResp) = 1 /\ lastResp[1].success
         /\ waited >= 1000)

\* a click was answered with success while a wait, now due, is still
\* suspended
C24_Witness ==
  /\ waits # <<>> /\ waits[1].elapsed >= waits[1].delay
  /\ lastMsg.action = "click"
  /\ Len(lastResp) = 1 /\ lastResp[1].success
  /\ Len(events) > 0

\* HTMLSelectElement.value: the value of the first selected option, '' when
\* none is selected
SelectValue(n) ==
  LET chosen == SelectSeq(dom[n].options, LAMBDA o : o.selected)
  IN IF chosen = <<>> THEN <<>> ELSE Head(chosen).value

\* C25: on a single-choice <select> that has an option whose value equals v,
\* selectOption with values [v] leaves the select's value equal to v,
\* whatever the other options and their order
C25_SelectByValue ==
  ( /\ SelectedOnSelect
    /\ ~dom[located].multiple
    /\ Len(lastMsg.payload.values) = 1
    /\ \E k \in 1..Len(dom[located].options) :
         dom[located].options[k].value = lastMsg.payload.values[1] ) =>
      SelectValue(located) = lastMsg.payload.values[1]

\* the trimmed texts of the elements that the ids of aria-labelledby name
ReferencedTexts(n) ==
  LET ids == dom[n].ariaLabelledby
      els == SelectSeq([i \in 1..Len(ids) |-> GetElementById(ids[i])], LAMBDA e : e # Null)
  IN SelectSeq([i \in 1..Len(els) |-> Trim(TextContent(els[i]))], LAMBDA t : t # <<>>)

\* the text of the <label for> of n, empty when there is none
LabelText(n) ==
  IF dom[n].id # <<>> /\ LabelFor(dom[n].id) # Null
  THEN Trim(TextContent(LabelFor(dom[n].id))) ELSE <<>>

\* C26: the accessible name is the first source that yields one: aria-label;
\* the texts of all elements named by the ids of aria-labelledby; the text
\* of the <label for>; placeholder, then name, of an input or textarea; the
\* own trimmed text when shorter than 50 characters; else the empty string
\* (read off the name of each line of a snapshot)
C26_NameSourceOrder ==
  (lastMsg.action = "snapshot" /\ Len(lastResp) = 1 /\ lastResp[1].success) =>
    \A i \in 1..Len(snapEls) :
      LET e == snapEls[i]
      IN IF dom[e].ariaLabel # <<>> THEN snapshot[i].name = EscapeYaml(dom[e].ariaLabel)
         ELSE IF ReferencedTexts(e) # <<>>
           THEN \A k \in 1..Len(ReferencedTexts(e)) :
                  Includes(snapshot[i].name, EscapeYaml(ReferencedTexts(e)[k]))
         ELSE IF LabelText(e) # <<>> THEN snapshot[i].name = EscapeYaml(LabelText(e))
         ELSE IF dom[e].tag \in {"input", "textarea"} /\ dom[e].placeholder # <<>>
           THEN snapshot[i].name = EscapeYaml(dom[e].placeholder)
         ELSE IF dom[e].tag \in {"input", "textarea"} /\ dom[e].name # <<>>
           THEN snapshot[i].name = EscapeYaml(dom[e].name)
         ELSE IF Trim(TextContent(e)) # <<>> /\ Len(Trim(TextContent(e))) < 50
           THEN snapshot[i].name = EscapeYaml(Trim(TextContent(e)))
         ELSE snapshot[i].name = <<>>

\* C27: between two snapshots the binding of indices to elements is
\* injective and stable under DOM mutations and resolve calls: no two
\* elements hold one index, an element keeps the index it has, and
\* findElementByIndex(i) returns only the element bound to i, so a later
\* findElementByIndex(i) returns the same element or null
C27_BindingInjectiveAndStable ==
  [][ /\ \A a, b \in DOMAIN elementIndexMap' :
           elementIndexMap'[a] = elementIndexMap'[b] => a = b
      /\ (lastCall'.op # "generateAriaSnapshot" \/ mutated') =>
           \A e \in DOMAIN elementIndexMap :
             e \in DOMAIN elementIndexMap' /\ elementIndexMap'[e] = elementIndexMap[e]
      /\ (lastCall'.op = "findElementByIndex" /\ found' # Null) =>
           /\ found' \in DOMAIN elementIndexMap'
           /\ elementIndexMap'[found'] = lastCall'.index
    ]_vars

\* after a snapshot and a restyling, the index of a now hidden element
\* resolved to null while another element was given a fresh index
C27_Witness ==
  /\ SnapshotTaken /\ mutated
  /\ lastCall.op = "findElementByIndex" /\ found = Null
  /\ \E e \in DOMAIN elementIndexMap :
       elementIndexMap[e] = lastCall.index /\ ~IsVisible(e)
  /\ elementIndex > Len(snapEls)

----------------------------------------------------------------------------
(* background.ts: UPDATE_TAGS and UPDATE_NOTES *)

InitStore ==
  /\ dom = <<>>
  /\ InitVars

\* what store.get(id) of a readonly transaction created now results in
GetResourceFromDB(id) ==
  IF id \in DOMAIN resources
  THEN [found |-> TRUE, resource |-> resources[id]]
  ELSE [found |-> FALSE, resource |-> SavedResource]

\* The listener calls handleMessage() for the message; the case runs to its
\* first await, where getResourceFromDB creates its readonly transaction.
\* Transactions on one object store take effect in the order of their
\* creation, so the request reads the store as it is at this step.
OnUpdateMessage(h) ==
  \E message \in UpdateMessages :
    /\ handlers[h].pc \in {"idle", "done"}
    /\ handlers' = [handlers EXCEPT ![h] =
         [HandlerIdle EXCEPT !.pc = "get", !.message = message,
            !.found = GetResourceFromDB(message.id).found,
            !.resource = GetResourceFromDB(message.id).resource]]
    /\ UNCHANGED <<baseVars, hintVars,
                   resources, now>>

\* getResourceFromDB resolves with null: the case answers and returns
GetFindsNothing(h) ==
  /\ handlers[h].pc = "get"
  /\ ~handlers[h].found
  /\ handlers' = [handlers EXCEPT ![h].pc = "done",
       ![h].resp = <<[success |-> FALSE, error |-> <<"Resource not found">>]>>]
  /\ UNCHANGED <<baseVars, hintVars,
                 resources, now>>

\* the copy of the resource after the case has assigned its field
Updated(resource, message) ==
  IF message.type = "UPDATE_TAGS"
  THEN [resource EXCEPT !.tags = message.tags, !.updatedAt = now]
  ELSE [resource EXCEPT !.notes = message.notes, !.updatedAt = now]

\* getResourceFromDB resolves with the resource read: the case assigns its
\* field and updatedAt on that copy and calls saveResourceToDB, which creates
\* a readwrite transaction and puts the whole copy
GetFindsResource(h) ==
  /\ handlers[h].pc = "get"
  /\ handlers[h].found
  /\ handlers' = [handlers EXCEPT ![h].pc = "put",
       ![h].resource = Updated(handlers[h].resource, handlers[h].message)]
  /\ resources' = [resources EXCEPT ![handlers[h].message.id] =
                     Updated(handlers[h].resource, handlers[h].message)]
  /\ UNCHANGED <<baseVars, hintVars, now>>

\* the put request succeeds: the case broadcasts and answers with its copy
PutSucceeds(h) ==
  /\ handlers[h].pc = "put"
  /\ handlers' = [handlers EXCEPT ![h].pc = "done", ![h].broadcast = TRUE,
       ![h].resp = <<[success |-> TRUE, data |-> handlers[h].resource]>>]
  /\ UNCHANGED <<baseVars, hintVars,
                 resources, now>>

\* time passes in the background worker
ClockAdvances ==
  /\ now < MaxNow
  /\ now' = now + 1
  /\ UNCHANGED <<baseVars, hintVars,
                 resources, handlers>>

OnUpdateMessages == \E h \in 1..MaxHandlers : OnUpdateMessage(h)
GetsFindNothing  == \E h \in 1..MaxHandlers : GetFindsNothing(h)
GetsFindResource == \E h \in 1..MaxHandlers : GetFindsResource(h)
PutsSucceed      == \E h \in 1..MaxHandlers : PutSucceeds(h)

NextStore ==
  \/ OnUpdateMessages \/ GetsFindNothing \/ GetsFindResource \/ PutsSucceed
  \/ ClockAdvances

SpecStore == InitStore /\ [][NextStore]_vars

\* C28: when an UPDATE_TAGS and an UPDATE_NOTES message for the same resource
\* are in progress together and both are answered with success, the stored
\* resource carries the tags of the one and the notes of the other: the put of
\* a notes update leaves the stored tags as they are and the put of a tags
\* update leaves the stored notes as they are.
C28_NeitherUpdateLost ==
  [][ \A h \in 1..MaxHandlers :
        (handlers[h].pc = "get" /\ handlers'[h].pc = "put") =>
          LET id == handlers[h].message.id IN
            IF handlers[h].message.type = "UPDATE_TAGS"
            THEN resources'[id].notes = resources[id].notes
            ELSE resources'[id].tags = resources[id].tags
    ]_vars

----------------------------------------------------------------------------
(* content/components/LinkHints.tsx: hint labels and the typed filter *)

\* largest number of link hints getLinkHints() finds on a page
MaxHints == 28

\* largest number of characters typed into the filter
MaxKeys == 2

hintCharacters ==
  <<"a", "s", "d", "f", "g", "h", "j", "k", "l", "q", "w", "e", "r",
    "t", "y", "u", "i", "o", "p", "z", "x", "c", "v", "b", "n", "m">>

\* the lower-case letters in the order of their UTF-16 code units
LowerCaseLetters ==
  <<"a", "b", "c", "d", "e", "f", "g", "h", "i", "j", "k", "l", "m",
    "n", "o", "p", "q", "r", "s", "t", "u", "v", "w", "x", "y", "z">>

CharCode(c) == 96 + (CHOOSE i \in 1..Len(LowerCaseLetters) : LowerCaseLetters[i] = c)

\* the comparison of Array.prototype.sort without a comparator: by code units
RECURSIVE StringLess(_, _)
StringLess(a, b) ==
  IF b = <<>> THEN FALSE
  ELSE IF a = <<>> THEN TRUE
  ELSE IF Head(a) # Head(b) THEN CharCode(Head(a)) < CharCode(Head(b))
  ELSE StringLess(Tail(a), Tail(b))

RECURSIVE InsertSorted(_, _)
InsertSorted(x, sorted) ==
  IF sorted = <<>> THEN <<x>>
  ELSE IF StringLess(x, Head(sorted)) THEN <<x>> \o sorted
  ELSE <<Head(sorted)>> \o InsertSorted(x, Tail(sorted))

\* Array.prototype.sort on strings
RECURSIVE SortStrings(_)
SortStrings(strs) ==
  IF strs = <<>> THEN <<>> ELSE InsertSorted(Head(strs), SortStrings(Tail(strs)))

\* str.split('').reverse().join('')
ReverseString(str) == [i \in 1..Len(str) |-> str[Len(str) + 1 - i]]

\* String.prototype.startsWith
StartsWith(str, prefix) ==
  Len(prefix) <= Len(str) /\ SubSeq(str, 1, Len(prefix)) = prefix

\* the while loop of activateMode: hints[offset++] is replaced by its 26
\* extensions, appended at the end, until enough unexpanded hints remain
RECURSIVE GrowHints(_, _, _)
GrowHints(hints, offset, count) ==
  IF (Len(hints) - offset < count) \/ Len(hints) = 1
  THEN GrowHints(hints \o [i \in 1..Len(hintCharacters) |->
                              <<hintCharacters[i]>> \o hints[offset + 1]],
                 offset + 1, count)
  ELSE [hints |-> hints, offset |-> offset]

\* hints.slice(first, first + count) of the grown list, sorted, each reversed
LabelsFrom(grown, first, count) ==
  LET sorted == SortStrings(SubSeq(grown.hints, first + 1, first + count))
  IN  [i \in 1..Len(sorted) |-> ReverseString(sorted[i])]

BrokenHintStringList(count) ==
  LabelsFrom(GrowHints(<<<<>>>>, 0, count), 1, count)

\* hintStringList of activateMode for count found hints
HintStringList(count) ==
  \* the labels are taken from hints.slice(offset, offset + count)
  LabelsFrom(GrowHints(<<<<>>>>, 0, count), GrowHints(<<<<>>>>, 0, count).offset, count)

\* hintsWithLabels of activateMode: hint number i gets the i-th label
HintsWithLabels(labels) ==
  [i \in 1..Len(labels) |-> [hintString |-> labels[i], visible |-> TRUE, matchCount |-> 0]]

\* updateHintVisibility(queue) applied to the hints
UpdateHintVisibility(hints, queue) ==
  [i \in 1..Len(hints) |->
     [hints[i] EXCEPT !.visible = StartsWith(hints[i].hintString, queue),
                      !.matchCount = Len(queue)]]

\* matchingHints: the positions of the visible hints, in order
MatchingHints(hints) == {i \in 1..Len(hints) : hints[i].visible}

\* the effect of lines 116-124 after a render with these hints and this queue
TimerSet(hints, queue) == Cardinality(MatchingHints(hints)) = 1 /\ Len(queue) > 0

\* handleKeyDown returns at once unless the component shows hints
HintsShown == hintsVisible /\ allHints # <<>>

InitHints ==
  /\ dom = <<>>
  /\ InitVars

\* visible becomes true: the effect of lines 108-114 runs activateMode
ActivateMode ==
  \E count \in 0..MaxHints :
    \E labels \in {HintStringList(count)} :
      /\ ~hintsVisible
      /\ hintsVisible' = TRUE
      /\ allHints' = HintsWithLabels(labels)
      /\ keyStrokeQueue' = <<>>
      /\ selectTimer' = FALSE
      /\ UNCHANGED <<baseVars, storeVars, selectedHint>>

\* visible becomes false (DEACTIVATE_LINK_HINTS, the toggle key or onClose):
\* the effect runs deactivateMode and the timer effect is cleaned up
DeactivateMode ==
  /\ hintsVisible
  /\ hintsVisible' = FALSE
  /\ allHints' = <<>>
  /\ keyStrokeQueue' = <<>>
  /\ selectTimer' = FALSE
  /\ UNCHANGED <<baseVars, storeVars, selectedHint>>

\* onLinkSelected(hint); onClose()
SelectAndClose(hint) ==
  /\ selectedHint' = hint
  /\ hintsVisible' = FALSE
  /\ allHints' = <<>>
  /\ keyStrokeQueue' = <<>>
  /\ selectTimer' = FALSE
  /\ UNCHANGED <<baseVars, storeVars>>

\* handleKeyDown, e.key === 'Escape'
KeyEscape ==
  /\ HintsShown
  /\ hintsVisible' = FALSE
  /\ allHints' = <<>>
  /\ keyStrokeQueue' = <<>>
  /\ selectTimer' = FALSE
  /\ UNCHANGED <<baseVars, storeVars, selectedHint>>

\* the state after setKeyStrokeQueue(newQueue); updateHintVisibility(newQueue)
\* and the render that follows
Filtered(newQueue) ==
  /\ keyStrokeQueue' = newQueue
  /\ allHints' = UpdateHintVisibility(allHints, newQueue)
  /\ selectTimer' = TimerSet(UpdateHintVisibility(allHints, newQueue), newQueue)
  /\ UNCHANGED <<baseVars, storeVars, hintsVisible, selectedHint>>

\* handleKeyDown, e.key === 'Backspace'
KeyBackspace ==
  /\ HintsShown
  /\ Filtered(SubSeq(keyStrokeQueue, 1, Len(keyStrokeQueue) - 1))

\* handleKeyDown, e.key === 'Enter'
KeyEnter ==
  /\ HintsShown
  /\ IF Cardinality(MatchingHints(allHints)) = 1
     THEN SelectAndClose(CHOOSE i \in MatchingHints(allHints) : TRUE)
     ELSE UNCHANGED vars

\* keys of one character typed while the hints are shown
TypedKeys == {"a", "s", "d", "m", "A", "1"}

\* handleKeyDown, any other key of one character
KeyTyped ==
  \E key \in TypedKeys :
    /\ HintsShown
    /\ Len(keyStrokeQueue) < MaxKeys
    /\ IF \E i \in 1..Len(hintCharacters) : hintCharacters[i] = LowerChar(key)
       THEN Filtered(Append(keyStrokeQueue, LowerChar(key)))
       ELSE UNCHANGED vars

\* the timer of lines 118-121 runs its callback
AutoSelectFires ==
  /\ selectTimer
  /\ SelectAndClose(CHOOSE i \in MatchingHints(allHints) : TRUE)

NextHints ==
  \/ ActivateMode \/ DeactivateMode \/ KeyEscape \/ KeyBackspace \/ KeyEnter
  \/ KeyTyped \/ AutoSelectFires

SpecHints == InitHints /\ [][NextHints]_vars

\* one label is a prefix of the other
IsPrefixOf(a, b) == StartsWith(b, a)

\* C29: the labels activateMode assigns are non-empty, pairwise distinct and
\* none is a prefix of another; whatever was typed, the visible hints are
\* exactly those whose label starts with the typed string, and when the typed
\* string is a complete label exactly that one hint is visible.
C29_LabelsPrefixFree ==
  /\ \A i \in 1..Len(allHints) : allHints[i].hintString # <<>>
  /\ \A i, j \in 1..Len(allHints) :
       i # j => ~IsPrefixOf(allHints[i].hintString, allHints[j].hintString)
  /\ \A i \in 1..Len(allHints) :
       allHints[i].visible <=> StartsWith(allHints[i].hintString, keyStrokeQueue)
  /\ \A i \in 1..Len(allHints) :
       allHints[i].hintString = keyStrokeQueue => MatchingHints(allHints) = {i}

\* 28 hints, "as" typed: only the hint labelled "as" is visible and the
\* auto-select timer is pending
C29_Witness ==
  /\ Len(allHints) = 28
  /\ keyStrokeQueue = <<"a", "s">>
  /\ \E i \in 1..Len(allHints) :
       allHints[i].hintString = <<"a", "s">> /\ MatchingHints(allHints) = {i}
  /\ selectTimer

----------------------------------------------------------------------------
(* content/utils/resource-storage.ts: sendMessage *)

\* message.type of the callers of sendMessage
MessageTypes ==
  {"GET_ALL_RESOURCES", "GET_RESOURCE", "SAVE_RESOURCE", "DELETE_RESOURCE",
   "DELETE_ALL_RESOURCES", "UPDATE_TAGS", "UPDATE_NOTES", "SEARCH_RESOURCES"}

\* timeoutMs = 5000 unless the caller passes another value
DefaultTimeoutMs == 5000
TimeoutValues == {DefaultTimeoutMs, 2000}

TimeoutText == "No response from extension (timeout)"

\* What the callback of chrome.runtime.sendMessage can find: lastError holds
\* the text of chrome.runtime.lastError.message ("" when there is no
\* lastError, "undefined" is the lastError without a message), payload tells
\* whether response is defined
CallbackResults ==
  [lastError : {"Extension context invalidated.", "The message port closed", "undefined"},
   payload : {FALSE}, success : {FALSE}, error : {""}]
    \cup [lastError : {""}, payload : {FALSE}, success : {FALSE}, error : {""}]
    \cup [lastError : {""}, payload : {TRUE}, success : {FALSE}, error : {"", "Resource not found"}]
    \cup [lastError : {""}, payload : {TRUE}, success : {TRUE}, error : {""}]

\* reject(new Error(text)): a promise that is settled stays as it is
Reject(s, text) ==
  IF s.promise = "pending" THEN [s EXCEPT !.promise = "rejected", !.value = text] ELSE s

\* resolve(response.data)
Resolve(s) ==
  IF s.promise = "pending" THEN [s EXCEPT !.promise = "fulfilled", !.value = "data"] ELSE s

\* errMsg.includes('Extension context invalidated')
ContextInvalidated(errMsg) == errMsg = "Extension context invalidated."

\* lines 50-71 of the callback, once it has set settled
Settle(s, r) ==
  IF r.lastError # ""
  THEN IF r.lastError = "undefined" THEN Reject(s, "Unknown chrome.runtime error")
       ELSE IF ContextInvalidated(r.lastError)
       THEN Reject(s, "Extension context invalidated. Reload the page to restore functionality.")
       ELSE Reject(s, r.lastError)
  ELSE IF ~r.payload THEN Reject(s, "No response payload from extension")
  ELSE IF ~r.success
  THEN Reject(s, IF r.error # "" THEN r.error ELSE "Extension returned unsuccessful response")
  ELSE Resolve(s)

BrokenOnCallback(s, r) ==
  IF s.settled THEN [s EXCEPT !.callback = "called"]
  ELSE Settle([s EXCEPT !.callback = "called", !.settled = TRUE], r)

\* the callback passed to chrome.runtime.sendMessage
OnCallback(s, r) ==
  IF s.settled THEN [s EXCEPT !.callback = "called"]
  ELSE Settle([s EXCEPT !.callback = "called", !.settled = TRUE,
                        !.timer = "cleared"], r)

\* the callback passed to setTimeout
OnTimeout(s) ==
  IF s.settled THEN [s EXCEPT !.timer = "fired"]
  ELSE Reject([s EXCEPT !.timer = "fired", !.settled = TRUE], TimeoutText)

\* a call starts when the call before it has nothing left to run but,
\* possibly, a callback that never comes
SendIdle == send.promise # "pending" /\ send.timer # "armed"

\* send.call flips with every call
NewSend(message, timeoutMs) ==
  [NoSend EXCEPT !.call = 1 - send.call, !.message = message,
                 !.timeoutMs = timeoutMs, !.promise = "pending"]

InitSend ==
  /\ dom = <<>>
  /\ InitVars

\* sendMessage where chrome.runtime.sendMessage does not exist
SendWithoutRuntime ==
  \E message \in MessageTypes, timeoutMs \in TimeoutValues :
    /\ SendIdle
    /\ send' = Reject(NewSend(message, timeoutMs), "Chrome runtime not available")
    /\ UNCHANGED <<pageVars, indexVars, snapVars, callVars, execVars, router,
                   storeVars, hintVars>>

\* sendMessage where chrome.runtime.sendMessage throws: the timer is set
\* before the call and the catch block rejects
SendThrows ==
  \E message \in MessageTypes, timeoutMs \in TimeoutValues :
    /\ SendIdle
    /\ send' = Reject([NewSend(message, timeoutMs) EXCEPT !.timer = "armed"],
                      "Extension context invalidated.")
    /\ UNCHANGED <<pageVars, indexVars, snapVars, callVars, execVars, router,
                   storeVars, hintVars>>

\* sendMessage: the timer is set and the message is sent
SendMessage ==
  \E message \in MessageTypes, timeoutMs \in TimeoutValues :
    /\ SendIdle
    /\ send' = [NewSend(message, timeoutMs) EXCEPT !.timer = "armed",
                                                   !.callback = "pending"]
    /\ UNCHANGED <<pageVars, indexVars, snapVars, callVars, execVars, router,
                   storeVars, hintVars>>

\* chrome calls the callback
CallbackRuns ==
  \E r \in CallbackResults :
    /\ send.callback = "pending"
    /\ send' = OnCallback(send, r)
    /\ UNCHANGED <<pageVars, indexVars, snapVars, callVars, execVars, router,
                   storeVars, hintVars>>

\* time passes while the timer is set
SendTick ==
  /\ send.timer = "armed"
  /\ send.elapsed < send.timeoutMs
  /\ send' = [send EXCEPT !.elapsed = @ + TickMs]
  /\ UNCHANGED <<pageVars, indexVars, snapVars, callVars, execVars, router,
                 storeVars, hintVars>>

\* setTimeout runs its callback no earlier than timeoutMs after the call
TimeoutFires ==
  /\ send.timer = "armed"
  /\ send.elapsed >= send.timeoutMs
  /\ send' = OnTimeout(send)
  /\ UNCHANGED <<pageVars, indexVars, snapVars, callVars, execVars, router,
                 storeVars, hintVars>>

NextSend ==
  \/ SendWithoutRuntime \/ SendThrows \/ SendMessage
  \/ CallbackRuns \/ SendTick \/ TimeoutFires

SpecSend == InitSend /\ [][NextSend]_vars

\* a timer that is set runs down and fires
SpecSendFair ==
  /\ InitSend
  /\ [][NextSend]_vars
  /\ WF_send(SendTick)
  /\ WF_send(TimeoutFires)

\* the step starts a new call
NewCall == send'.call # send.call

\* C30: a sendMessage call settles its promise exactly once.  A settled
\* promise keeps its outcome; the timer callback of a call that nothing has
\* settled rejects with the timeout error, and not before timeoutMs; a
\* callback that runs after the timeout changes nothing; after a callback
\* that ran first the timer never fires; and every pending promise is settled
\* in the end.
C30_SettlesExactlyOnce ==
  /\ [][ (send.promise \in {"fulfilled", "rejected"} /\ ~NewCall) =>
           (send'.promise = send.promise /\ send'.value = send.value) ]_vars
  /\ [][ (send.promise = "pending" /\ send.timer = "armed" /\ send'.timer = "fired") =>
           /\ send.elapsed >= send.timeoutMs
           /\ send'.promise = "rejected" /\ send'.value = TimeoutText ]_vars
  /\ [][ (send.timer = "fired" /\ send.callback = "pending" /\ send'.callback = "called") =>
           (send'.promise = send.promise /\ send'.value = send.value) ]_vars
  /\ [][ (send.callback = "called" /\ send.timer # "fired" /\ ~NewCall) =>
           send'.timer = "cleared" ]_vars
  /\ (send.promise = "pending") ~> (send.promise \in {"fulfilled", "rejected"})

\* the timer of a call with the default timeout fired after 5000 ms and
\* rejected the promise, and the response that came later was ignored
C30_Witness ==
  /\ send.timeoutMs = DefaultTimeoutMs /\ send.elapsed >= 5000
  /\ send.timer = "fired" /\ send.callback = "called"
  /\ send.promise = "rejected" /\ send.value = TimeoutText

====
